---- MODULE Spec2Model ----
(***************************************************************************)
(* Model of the claim-to-hypothesis validation engine                      *)
(* (scripts/validate_hypotheses.py) and of the helpers it calls in         *)
(* scripts/pipeline_utils.py.                                              *)
(*                                                                         *)
(* Encoding of Python values:                                              *)
(*   - a dict is a TLA+ record; an absent key is a field that is not in    *)
(*     the DOMAIN, so d.get(k, default) is Get(d, k, default);             *)
(*   - a text is the sequence of its whitespace-separated words;           *)
(*   - JSON null is JNull in a dict-typed field, NoneStr in a string-typed *)
(*     field and the empty sequence in a list-typed field (the code tests  *)
(*     lists for truth only); a JSON string where a dict is expected is    *)
(*     JStr;                                                               *)
(*   - a float score is the exact rational [n |-> num, d |-> den];         *)
(*   - an exception is the value RAISE (a pure function) or the control    *)
(*     state "raised" with the exception's name in exc (a run).            *)
(***************************************************************************)
EXTENDS Integers, Sequences, FiniteSets, TLC

VARIABLES
    pc,               \* position of the run inside process_claims / load_hypotheses
    exc,              \* name of the exception that left the run, "" if none
    config,           \* the parsed configuration object
    ledger,           \* state of the hypothesis ledger path on disk
    claims_files,     \* the claim files glob finds for the run date, in glob order
    hypotheses,       \* load_hypotheses' first result
    source_tier,      \* load_hypotheses' second result
    fi,               \* index of the next claim file to load
    run_errors,       \* process_claims.run_errors
    all_claims_flat,  \* process_claims.all_claims_flat
    origin,           \* history: for each flattened claim, its (file, paper, position)
    cluster_counts,   \* process_claims.cluster_counts (a dict keyed by _temp_id)
    scoring_config,   \* process_claims.scoring_config after the safety defaults
    ci,               \* index of the next claim to score
    rep_args,         \* history: cluster count passed to calculate_replication_score
    validated_claims, \* process_claims.validated_claims
    validated_from,   \* history: for each validated claim, its index in all_claims_flat
    output_data,      \* the assembled report
    tmp_file,         \* content of validated_claims.json.tmp
    report_file,      \* content of validated_claims.json
    status,           \* content of the pipeline status file
    run,              \* number of the current run of process_claims
    loaded_config,    \* history: the configuration as load_config returned it
    previous_report,  \* history: content of validated_claims.json when the run began
    result,           \* value a function applied on its own returned, or RAISE
    models_to_try,    \* GeminiClient: [model_name] + fallback_models of the call
    mi,               \* index of the model extract_claims is trying
    attempt,          \* _generate_content_with_retry.attempt
    total_sleep,      \* _generate_content_with_retry.total_sleep, in seconds
    posts,            \* history: the model of every requests.post sent, in order
    tried,            \* history: how the call for each model tried ended
    last_sleep,       \* history: the latest time.sleep of the client and its cause
    github_run_id,    \* environment variable GITHUB_RUN_ID ("local_run" if unset)
    last_call,        \* history: the latest call on the status file
    initialized,      \* history: the status file stems from initialize_status
    ingest,           \* the ingested paper files of the day, in processing order
    claims_out,       \* the claims file written for each ingested file
    total_processed,  \* main.total_processed
    max_papers,       \* main.max_papers
    quota_faults      \* how many more quota exhaustions the service will report

vars == <<pc, exc, config, ledger, claims_files, hypotheses, source_tier, fi,
          run_errors, all_claims_flat, origin, cluster_counts, scoring_config,
          ci, rep_args, validated_claims, validated_from, output_data, tmp_file,
          report_file, status, run, loaded_config, previous_report, result,
          models_to_try, mi, attempt, total_sleep, posts, tried, last_sleep,
          github_run_id, last_call, initialized,
          ingest, claims_out, total_processed, max_papers, quota_faults>>

\* the state of a call of GeminiClient.extract_claims, of the callers of the
\* status file and of the extraction runs
client_vars == <<models_to_try, mi, attempt, total_sleep, posts, tried, last_sleep>>
status_vars == <<github_run_id, last_call, initialized>>
extract_vars == <<ingest, claims_out, total_processed, max_papers, quota_faults>>

----------------------------------------------------------------------------
(* Python values *)

Get(d, k, default) == IF k \in DOMAIN d THEN d[k] ELSE default

EmptyDict == [x \in {} |-> 0]
JNull     == [json_null |-> TRUE]
JStr      == [json_str |-> TRUE]
NoneStr   == "<None>"
RAISE     == [raised |-> TRUE]
RaiseInt  == 0 - 1
NoFile    == [absent |-> TRUE]

IsDict(v) == v # JNull /\ v # JStr

Max(a, b) == IF a >= b THEN a ELSE b
Min(a, b) == IF a <= b THEN a ELSE b

SeqToSet(s) == {s[k] : k \in 1..Len(s)}

----------------------------------------------------------------------------
(* normalize_text, get_tokens *)

\* text.lower() followed by re.sub(r'[^\w\s]', '', text), one word at a time;
\* a word that is already lower-case alphanumeric is left as it is.
NormTable ==
    [w \in {"Senolytic", "Senolytics", "X", "IL-6", "il-6", "humans.", "--",
            "Epigenetic", "aging.", "Cellular", "(SASP)", "dysfunction.",
            "Mitochondrial", "Deregulated", "(mTOR,", "AMPK,", "insulin)",
            "Stem", "regeneration.", "Comparative", "long-lived",
            "mechanisms.", "inflammation.", "The"} |->
        CASE w = "Senolytic" -> "senolytic"
          [] w = "Senolytics" -> "senolytics"
          [] w = "X" -> "x"
          [] w = "IL-6" -> "il6"
          [] w = "il-6" -> "il6"
          [] w = "humans." -> "humans"
          [] w = "--" -> ""
          [] w = "Epigenetic" -> "epigenetic"
          [] w = "aging." -> "aging"
          [] w = "Cellular" -> "cellular"
          [] w = "(SASP)" -> "sasp"
          [] w = "dysfunction." -> "dysfunction"
          [] w = "Mitochondrial" -> "mitochondrial"
          [] w = "Deregulated" -> "deregulated"
          [] w = "(mTOR," -> "mtor"
          [] w = "AMPK," -> "ampk"
          [] w = "insulin)" -> "insulin"
          [] w = "Stem" -> "stem"
          [] w = "regeneration." -> "regeneration"
          [] w = "Comparative" -> "comparative"
          [] w = "long-lived" -> "longlived"
          [] w = "mechanisms." -> "mechanisms"
          [] w = "inflammation." -> "inflammation"
          [] w = "The" -> "the"]

NormWord(w) == IF w \in DOMAIN NormTable THEN NormTable[w] ELSE w

RECURSIVE normalize_text(_)
normalize_text(text) ==
    IF text = <<>> THEN <<>>
    ELSE LET w == NormWord(Head(text))
         IN  IF w = "" THEN normalize_text(Tail(text))
             ELSE <<w>> \o normalize_text(Tail(text))

stopwords == {"the", "a", "an", "and", "or", "but", "in", "on", "at", "to",
              "for", "of", "with", "by", "is", "are", "was", "were"}

get_tokens(text) == SeqToSet(normalize_text(text)) \ stopwords

----------------------------------------------------------------------------
(* Configuration and the hardcoded hypotheses *)

TIER_C_HYPOTHESES == <<
    [id |-> "HYP-VAL-01", domain |-> "epigenetic",
     text |-> <<"Epigenetic", "alterations", "and", "loss", "of", "information",
                "are", "primary", "drivers", "of", "aging.">>],
    [id |-> "HYP-VAL-02", domain |-> "senescence",
     text |-> <<"Cellular", "senescence", "and", "the", "associated", "secretory",
                "phenotype", "(SASP)", "drive", "tissue", "dysfunction.">>],
    [id |-> "HYP-VAL-03", domain |-> "mitochondrial",
     text |-> <<"Mitochondrial", "dysfunction", "and", "loss", "of",
                "proteostasis", "contribute", "to", "aging.">>],
    [id |-> "HYP-VAL-04", domain |-> "nutrient_sensing",
     text |-> <<"Deregulated", "nutrient", "sensing", "pathways", "(mTOR,",
                "AMPK,", "insulin)", "accelerate", "aging.">>],
    [id |-> "HYP-VAL-05", domain |-> "stem_cell_ecm",
     text |-> <<"Stem", "cell", "exhaustion", "and", "altered", "intercellular",
                "communication", "impair", "tissue", "regeneration.">>],
    [id |-> "HYP-VAL-06", domain |-> "comparative",
     text |-> <<"Comparative", "biology", "of", "long-lived", "species",
                "reveals", "conserved", "longevity", "mechanisms.">>] >>


\* config.get("domains", {}) keeps its keys in insertion order: the model holds
\* it as a sequence of entries [key, key_biomarkers, biorxiv_keywords].
DomainKeys(cfg) ==
    LET ds == Get(cfg, "domains", <<>>) IN [k \in 1..Len(ds) |-> ds[k].key]

HasDomain(cfg, d) == d \in SeqToSet(DomainKeys(cfg))

DomainCfg(cfg, d) ==
    LET ds == Get(cfg, "domains", <<>>)
    IN  ds[CHOOSE k \in 1..Len(ds) : ds[k].key = d]

\* a in b for two strings of the model's vocabulary (Python's substring test)
SubstrPairs == { <<"senolytic", "senolytics">>,
                 <<"senescence", "cellular_senescence">>,
                 <<"epigenetic", "epigenetic_clock">>,
                 <<"sen", "senescence">>,
                 <<"sen", "cellular_senescence">>,
                 <<"sen", "senolytic">>,
                 <<"sen", "senolytics">>,
                 <<"unknown", "unknown_mechanism">> }

IsSubstring(a, b) == a = "" \/ a = b \/ <<a, b>> \in SubstrPairs

----------------------------------------------------------------------------
(* parse_tier_b_markdown *)

\* A ledger line is the pattern it matches and what the pattern captures:
\*   [k |-> "hyp", id, text]         hyp_pattern
\*   [k |-> "keywords", v]           keywords_pattern, v the comma-separated items
\*   [k |-> "tags", v]               domain_tags_pattern
\*   [k |-> "expected", raw]         expected_pattern
\*   [k |-> "for", v], [k |-> "against", v]
\*   [k |-> "other"]                 no pattern

\* x.strip() of a comma-separated item
StripItem(x) == IF x \in {" ", "  "} THEN "" ELSE x

parse_comma_separated(value) ==
    LET stripped == [k \in 1..Len(value) |-> StripItem(value[k])]
    IN  SelectSeq(stripped, LAMBDA x : x # "")

\* tag.lower().replace(" ", "_")
TagNorm(tag) ==
    CASE tag = "Cellular Senescence" -> "cellular_senescence"
      [] tag = "Epigenetic Clock" -> "epigenetic_clock"
      [] tag = "Senescence" -> "senescence"
      [] tag = "Unknown mechanism" -> "unknown_mechanism"
      [] OTHER -> tag

\* p.replace("PMID:", "").strip()
StripPmid(p) ==
    CASE p = "PMID:123" -> "123"
      [] p = "PMID:456" -> "456"
      [] p = "PMID:789" -> "789"
      [] OTHER -> p

\* the first d_key of config_domains with d_key in tag_norm, "unknown" if none
RECURSIVE FirstKeyIn(_, _)
FirstKeyIn(keys, tag_norm) ==
    IF keys = <<>> THEN "unknown"
    ELSE IF IsSubstring(Head(keys), tag_norm) THEN Head(keys)
    ELSE FirstKeyIn(Tail(keys), tag_norm)

\* the loop over hyp["domain_tags"] of finalize_hyp (lines 79-85)
RECURSIVE DomainFromTags(_, _)
DomainFromTags(tags, config_domains) ==
    IF tags = <<>> THEN "unknown"
    ELSE LET d == FirstKeyIn(config_domains, TagNorm(Head(tags)))
         IN  IF d # "unknown" THEN d
             ELSE DomainFromTags(Tail(tags), config_domains)

finalize_hyp(hyp, config_domains) ==
    LET raw == Get(hyp, "_expected_raw", [empty |-> TRUE])
        expected == IF "target" \in DOMAIN raw
                    THEN << [target |-> raw.target, direction |-> raw.direction] >>
                    ELSE <<>>
        inferred == DomainFromTags(hyp.domain_tags, config_domains)
        domain == IF inferred = "unknown" /\ hyp.domain_tags # <<>>
                  THEN hyp.domain_tags[1] ELSE inferred
    IN  [id |-> hyp.id, text |-> hyp.text, keywords |-> hyp.keywords,
         domain_tags |-> hyp.domain_tags, evidence_for |-> hyp.evidence_for,
         evidence_against |-> hyp.evidence_against,
         expected_effect |-> expected, domain |-> domain]

NewHyp(line) ==
    [id |-> line.id, text |-> line.text, keywords |-> <<>>, domain_tags |-> <<>>,
     evidence_for |-> <<>>, evidence_against |-> <<>>]

StripAll(items) == [k \in 1..Len(items) |-> StripPmid(items[k])]

\* the body of the loop over the lines for a line below a hypothesis bullet
ApplyLine(cur, line) ==
    CASE line.k = "keywords" -> [cur EXCEPT !.keywords = parse_comma_separated(line.v)]
      [] line.k = "tags" -> [cur EXCEPT !.domain_tags = parse_comma_separated(line.v)]
      [] line.k = "expected" -> cur @@ [_expected_raw |-> line.raw]
      [] line.k = "for" ->
            [cur EXCEPT !.evidence_for = @ \o StripAll(parse_comma_separated(line.v))]
      [] line.k = "against" ->
            [cur EXCEPT !.evidence_against = @ \o StripAll(parse_comma_separated(line.v))]
      [] OTHER -> cur

\* cur is JNull while current_hyp is None
RECURSIVE ParseLines(_, _, _, _)
ParseLines(lines, cur, acc, config_domains) ==
    IF lines = <<>>
    THEN IF cur # JNull THEN Append(acc, finalize_hyp(cur, config_domains)) ELSE acc
    ELSE LET line == Head(lines) IN
         IF line.k = "hyp"
         THEN ParseLines(Tail(lines), NewHyp(line),
                         IF cur # JNull
                         THEN Append(acc, finalize_hyp(cur, config_domains))
                         ELSE acc,
                         config_domains)
         ELSE ParseLines(Tail(lines),
                         IF cur # JNull THEN ApplyLine(cur, line) ELSE cur,
                         acc, config_domains)

parse_tier_b_markdown(content, config_domains) ==
    ParseLines(content, JNull, <<>>, config_domains)

----------------------------------------------------------------------------
(* load_hypotheses *)

\* The ledger path:
\*   kind   "absent" | "dir" (exists, not a regular file) | "unreadable" | "file"
\*   block  what lies between the two sentinel markers:
\*          "none" (no markers) | "blank" | "invalid" (not JSON) | "json"
\*   parsed the JSON value of the block, tagged with its type:
\*          [t |-> "list", list], [t |-> "dict", dict] or [t |-> "num", num]; the
\*          "hypotheses" field of a dict is tagged the same way, or [t |-> "null"]
\*   lines  the lines of the document

Truthy(j) ==
    CASE j.t = "list" -> j.list # <<>>
      [] j.t = "num" -> j.num # 0
      [] OTHER -> FALSE

\* the try block of lines 151-162; the result is the (hypotheses, tier) pair,
\* RAISE, or JNull when the code falls through to Tier B
TierA(led) ==
    IF led.block # "json" THEN JNull
    ELSE LET parsed == led.parsed
             hyps == IF parsed.t = "list" THEN parsed
                     ELSE IF parsed.t = "dict" /\ "hypotheses" \in DOMAIN parsed.dict
                          THEN parsed.dict.hypotheses
                          ELSE [t |-> "list", list |-> <<>>]
         IN  IF ~Truthy(hyps) THEN JNull
             ELSE IF hyps.t = "num" THEN RAISE  \* len() of an int: TypeError
             ELSE [hypotheses |-> hyps.list, tier |-> "A"]

load_hypotheses(cfg, led) ==
    IF led.kind = "absent"
    THEN [hypotheses |-> TIER_C_HYPOTHESES, tier |-> "C"]
    ELSE IF led.kind \in {"dir", "unreadable"}
    THEN RAISE   \* open(ledger_path, "r"): IsADirectoryError / PermissionError
    ELSE LET a == TierA(led)
             tier_b_hyps == parse_tier_b_markdown(led.lines, DomainKeys(cfg))
         IN  IF a = RAISE THEN RAISE
             ELSE IF a # JNull THEN a
             ELSE IF tier_b_hyps # <<>>
             THEN [hypotheses |-> tier_b_hyps, tier |-> "B"]
             ELSE [hypotheses |-> TIER_C_HYPOTHESES, tier |-> "C"]

----------------------------------------------------------------------------
(* Scores: exact rationals [n, d] with d > 0 *)

Rat(n, d) == [n |-> n, d |-> d]
RatGE(a, b) == a.n * b.d >= b.n * a.d
RatGT(a, b) == a.n * b.d > b.n * a.d
RatLT(a, b) == a.n * b.d < b.n * a.d

\* weights are held in hundredths: 0.45 is 45
DefaultMatchWeights == [domain_overlap |-> 45, token_jaccard |-> 40, entity_score |-> 15]

Scoring(cfg) == Get(Get(cfg, "validation", EmptyDict), "scoring", EmptyDict)

\* normalize_text(kw) in claim_text_norm: a one-word keyword lies in the text
\* iff it lies in one of its words; a longer one is looked up as a run of words
KwIn(kw, text) ==
    IF kw = <<>> THEN TRUE
    ELSE IF Len(kw) = 1 THEN \E k \in 1..Len(text) : IsSubstring(kw[1], text[k])
    ELSE \E k \in 1..Len(text) :
            k + Len(kw) - 1 <= Len(text) /\ SubSeq(text, k, k + Len(kw) - 1) = kw

\* keywords of the hypothesis, or the domain's key_biomarkers + biorxiv_keywords
HypKeywords(hypothesis, cfg) ==
    LET keywords == Get(hypothesis, "keywords", <<>>)
        hyp_domain == Get(hypothesis, "domain", "unknown")
    IN  IF keywords = <<>> /\ HasDomain(cfg, hyp_domain)
        THEN Get(DomainCfg(cfg, hyp_domain), "key_biomarkers", <<>>) \o
             Get(DomainCfg(cfg, hyp_domain), "biorxiv_keywords", <<>>)
        ELSE keywords

KeywordMatches(claim, keywords) ==
    LET claim_text_norm == normalize_text(Get(claim, "claim_text", <<>>))
    IN  Cardinality({k \in 1..Len(keywords) :
                        KwIn(normalize_text(keywords[k]), claim_text_norm)})

\* the token-set Jaccard index as lines 190-195 compute it: 0 (no division)
\* when either set is empty, else |A & B| / |A | B|;
\* JaccardIndexOfSum divides by |A| + |B| instead of |A | B|
JaccardIndexOfSum(a, b) ==
    IF a = {} \/ b = {} THEN Rat(0, 1)
    ELSE Rat(Cardinality(a \cap b), Cardinality(a) + Cardinality(b))

JaccardIndex(a, b) ==
    IF a = {} \/ b = {} THEN Rat(0, 1)
    ELSE Rat(Cardinality(a \cap b), Cardinality(a \cup b))

\* 100 * (w_d * domain/100 + w_j * jaccard/100 + w_e * entity/100) from its parts:
\* same_domain, |A & B| / |A | B| (0/1 when a token set is empty) and
\* matches / len(keywords) (0/1 when there are no keywords);
\* MatchScoreOfPenalised subtracts the keyword term instead of adding it
MatchScoreOfPenalised(weights, same_domain, intersection, union, matches, nkw) ==
    LET wd == Get(weights, "domain_overlap", 45)
        wj == Get(weights, "token_jaccard", 40)
        we == Get(weights, "entity_score", 15)
        dom == IF same_domain THEN 1 ELSE 0
    IN  Rat(wd * dom * union * nkw + wj * intersection * nkw - we * matches * union,
            union * nkw)

MatchScoreOf(weights, same_domain, intersection, union, matches, nkw) ==
    LET wd == Get(weights, "domain_overlap", 45)
        wj == Get(weights, "token_jaccard", 40)
        we == Get(weights, "entity_score", 15)
        dom == IF same_domain THEN 1 ELSE 0
    IN  Rat(wd * dom * union * nkw + wj * intersection * nkw + we * matches * union,
            union * nkw)

calculate_match_score(claim, hypothesis, cfg) ==
    LET given == Get(Scoring(cfg), "match_weights", EmptyDict)
        weights == IF DOMAIN given = {} THEN DefaultMatchWeights ELSE given
        claim_domain == Get(claim, "domain_primary", "unknown")
        hyp_domain == Get(hypothesis, "domain", "unknown")
        claim_tokens == get_tokens(Get(claim, "claim_text", <<>>))
        hyp_tokens == get_tokens(Get(hypothesis, "text", <<>>))
        jaccard == JaccardIndex(claim_tokens, hyp_tokens)
        intersection == jaccard.n
        union == jaccard.d
        keywords == HypKeywords(hypothesis, cfg)
        matches == IF keywords = <<>> THEN 0 ELSE KeywordMatches(claim, keywords)
        nkw == IF keywords = <<>> THEN 1 ELSE Len(keywords)
    IN  MatchScoreOf(weights, claim_domain = hyp_domain, intersection, union, matches, nkw)

\* str(claim.get("study_design", "unknown")).lower()
DesignLower(claim) ==
    LET d == Get(claim, "study_design", "unknown")
    IN  CASE d = NoneStr -> "none"
          [] d = "RCT" -> "rct"
          [] d = "Cohort" -> "cohort"
          [] d = "Meta Analysis" -> "meta analysis"
          [] d = "In Vitro" -> "in vitro"
          [] OTHER -> d

\* .replace(" ", "_")
Underscored(d) ==
    CASE d = "meta analysis" -> "meta_analysis"
      [] d = "in vitro" -> "in_vitro"
      [] d = "case control" -> "case_control"
      [] OTHER -> d

\* DesignScoresUnknown scores every design as an unknown one
DesignScoresUnknown(design) == 35

design_scores(design) ==
    CASE design = "meta_analysis" -> 95
      [] design = "rct" -> 90
      [] design = "cohort" -> 75
      [] design = "case_control" -> 65
      [] design = "cross_sectional" -> 55
      [] design = "animal" -> 45
      [] design = "in_vitro" -> 30
      [] design = "review" -> 40
      [] design = "unknown" -> 35
      [] design = "observational" -> 55
      [] design = "in_vivo" -> 45
      [] OTHER -> 35

\* effect_size is "" (falsy), NoneStr, or a text; MentionsCI is the test
\* "CI" in s or "confidence interval" in s.lower()
MentionsCI(s) == s \in {"OR 1.5 (95% CI 1.1-2.0)", "95% confidence interval 1-2"}

Present(claim, k) == k \in DOMAIN claim /\ claim[k] # "" /\ claim[k] # NoneStr

calculate_evidence_strength(claim) ==
    LET base == design_scores(Underscored(DesignLower(claim)))
        bonus == (IF Present(claim, "effect_size") THEN 5 ELSE 0)
               + (IF Present(claim, "p_value") THEN 3 ELSE 0)
               + (IF MentionsCI(Get(claim, "effect_size", "")) THEN 3 ELSE 0)
        limitations == Get(claim, "limitations_noted", <<>>)
        penalty == IF limitations # <<>>
                   THEN Min(20, Len(limitations) * 5) ELSE 0
    IN  Max(0, Min(100, base + bonus - penalty))

SpeciesScore(s) ==
    CASE s \in {"human", "Human", "humans", "patients", "people"} -> 100
      [] s \in {"primate", "monkey", "rhesus monkey"} -> 85
      [] s \in {"mouse", "mice", "rat", "murine", "Mouse"} -> 70
      [] s \in {"drosophila", "C. elegans", "fly", "worm"} -> 55
      [] s \in {"cell line", "in vitro", "HeLa cells"} -> 35
      [] OTHER -> 50

RECURSIVE MaxOf(_)
MaxOf(scores) ==
    IF Len(scores) = 1 THEN scores[1] ELSE Max(Head(scores), MaxOf(Tail(scores)))

calculate_species_relevance(claim) ==
    LET species_list == Get(claim, "species", <<>>)
    IN  IF species_list = <<>> THEN 50
        ELSE MaxOf([k \in 1..Len(species_list) |-> SpeciesScore(species_list[k])])

calculate_replication_score(claim, cluster_members) ==
    LET novelty == Get(claim, "novelty_flag", "")
        contradiction == Get(claim, "contradiction_flags", EmptyDict)
    IN  IF novelty = NoneStr THEN RaiseInt          \* None.lower(): AttributeError
        ELSE IF contradiction = JNull THEN RaiseInt \* None.get: AttributeError
        ELSE LET s1 == 50 + (IF novelty \in {"replication", "replication of prior work"}
                             THEN 25 ELSE 0)
                          - (IF novelty \in {"novel", "novel finding"} THEN 10 ELSE 0)
                          - (IF Get(contradiction, "contradicts_existing", FALSE)
                             THEN 25 ELSE 0)
                 bonus == Min(15, cluster_members * 5)
             IN  Max(0, Min(100, s1 + bonus))

calculate_contradiction_score(claim, hypothesis) ==
    LET contradiction == Get(claim, "contradiction_flags", EmptyDict)
    IN  IF contradiction = JNull THEN RaiseInt
        ELSE Max(0, Min(100, 100 - (IF Get(contradiction, "contradicts_existing", FALSE)
                                    THEN 25 ELSE 0)))


\* int(re.findall(r'\d+', str(claim.get("sample_size", "")))[0]), or RaiseInt
\* standing for "no digits"
FirstInt(claim) ==
    LET n_str == Get(claim, "sample_size", "")
    IN  CASE n_str = "n=120" -> 120
          [] n_str = "n=5" -> 5
          [] n_str = "12 wells" -> 12
          [] n_str = "50000 participants (2 cohorts)" -> 50000
          [] n_str = "0" -> 0
          [] OTHER -> RaiseInt

\* math.log10 in thousandths, on the values the model uses
Log10Milli(n) ==
    CASE n = 1 -> 0
      [] n = 5 -> 699
      [] n = 12 -> 1079
      [] n = 60 -> 1778
      [] n = 100 -> 2000
      [] n = 120 -> 2079
      [] n = 1000 -> 3000
      [] n = 10000 -> 4000
      [] n = 50000 -> 4699

RECURSIVE GCD(_, _)
GCD(a, b) == IF b = 0 THEN a ELSE GCD(b, a % b)

Abs(x) == IF x < 0 THEN 0 - x ELSE x

RatNorm(r) ==
    LET g == GCD(Abs(r.n), r.d) IN IF g = 0 THEN Rat(0, 1) ELSE Rat(r.n \div g, r.d \div g)

RatAdd(a, b) == RatNorm(Rat(a.n * b.d + b.n * a.d, a.d * b.d))
RatScale(k, a) == RatNorm(Rat(k * a.n, a.d))
RatInt(k) == Rat(k, 1)
RatClamp(r) ==
    IF RatLT(r, RatInt(0)) THEN RatInt(0)
    ELSE IF RatGT(r, RatInt(100)) THEN RatInt(100) ELSE r

calculate_sample_size_score(claim) ==
    LET n == FirstInt(claim)
        design == DesignLower(claim)
        in_vitro == design \in {"in vitro", "cell culture"}
        n_ref == CASE design = "rct" -> 1000
                   [] design = "cohort" -> 10000
                   [] design \in {"animal", "in vivo"} -> 60
                   [] in_vitro -> 12
                   [] OTHER -> 100
        score == RatClamp(RatNorm(Rat(100 * Log10Milli(Max(n, 1)), Log10Milli(n_ref))))
    IN  IF n = RaiseInt THEN RatInt(40)
        ELSE IF n < 10 /\ ~in_vitro /\ RatGT(score, RatInt(25)) THEN RatInt(25)
        ELSE score

\* lines 422-433: evidence_quality and the clamped composite of one pair;
\* CompositeUnclamped is Composite without line 433
EvidenceQuality(sc, ev_strength, sp_relevance, sz_score) ==
    LET eq_weights == sc.evidence_quality_weights
        sum == RatAdd(RatInt(Get(eq_weights, "evidence_strength", 50) * ev_strength
                           + Get(eq_weights, "species_relevance", 25) * sp_relevance),
                      RatScale(Get(eq_weights, "sample_size", 25), sz_score))
    IN  RatNorm(Rat(sum.n, sum.d * 100))

CompositeUnclamped(sc, match_score, evidence_quality, rep_score, contra_score) ==
    LET comp_weights == sc.composite_weights
        sum == RatAdd(RatAdd(RatScale(Get(comp_weights, "match", 55), match_score),
                             RatScale(Get(comp_weights, "evidence_quality", 45),
                                      evidence_quality)),
                      RatInt(Get(comp_weights, "replication_modifier", 10) * (rep_score - 50)
                           - (100 - contra_score)
                             * Get(comp_weights, "contradiction_modifier", 35)))
    IN  RatNorm(Rat(sum.n, sum.d * 100))

Composite(sc, match_score, evidence_quality, rep_score, contra_score) ==
    LET comp_weights == sc.composite_weights
        sum == RatAdd(RatAdd(RatScale(Get(comp_weights, "match", 55), match_score),
                             RatScale(Get(comp_weights, "evidence_quality", 45),
                                      evidence_quality)),
                      RatInt(Get(comp_weights, "replication_modifier", 10) * (rep_score - 50)
                           - (100 - contra_score)
                             * Get(comp_weights, "contradiction_modifier", 35)))
    IN  RatClamp(RatNorm(Rat(sum.n, sum.d * 100)))

----------------------------------------------------------------------------
(* The claim-file loop of process_claims (lines 330-377) *)

\* A claim file is [kind |-> "malformed"] (json.load raises JSONDecodeError),
\* [kind |-> "nonarray"] (the top level is no list) or
\* [kind |-> "array", data |-> the paper objects].  Its basename is its index.

ErrFile(f, error, action) == [file |-> f, error |-> error, action |-> action]

\* f"{pmid}_{i}"
TempId(pmid, i) == <<pmid, i>>

\* Provenance with the 0-based index stored as _seq
ProvenanceZeroBased(claim, pmid, i) ==
    claim @@ [_temp_id |-> TempId(pmid, i), _pmid |-> pmid, _seq |-> i]

\* lines 356-358: the provenance fields of the claim at 0-based index i
Provenance(claim, pmid, i) ==
    claim @@ [_temp_id |-> TempId(pmid, i), _pmid |-> pmid, _seq |-> i + 1]

\* lines 355-359 for the claims of one paper, from 0-based index i on; acc is
\* [flat, origin, errors, raised]
RECURSIVE LoadClaims(_, _, _, _, _, _)
LoadClaims(claims, i, pmid, f, p, acc) ==
    IF i >= Len(claims) THEN acc
    ELSE LET claim == claims[i + 1] IN
         IF ~IsDict(claim)
         THEN [acc EXCEPT !.raised = TRUE]   \* item assignment on a str: TypeError
         ELSE LoadClaims(claims, i + 1, pmid, f, p,
                [acc EXCEPT
                   !.flat = Append(@, Provenance(claim, pmid, i)),
                   !.origin = Append(@, [f |-> f, p |-> p, i |-> i + 1])])

\* lines 343-360 from paper p on
RECURSIVE LoadPapers(_, _, _, _)
LoadPapers(data, p, f, acc) ==
    IF p > Len(data) THEN acc
    ELSE LET item == data[p] IN
         IF "input_paper" \notin DOMAIN item
         THEN LoadPapers(data, p + 1, f,
                [acc EXCEPT !.errors =
                    Append(@, ErrFile(f, "Missing input_paper", "skipped_paper"))])
         ELSE IF item.input_paper = JNull
         THEN [acc EXCEPT !.raised = TRUE]   \* None.get: AttributeError
         ELSE LET pmid == Get(item.input_paper, "pmid", "unknown")
                  extracted == Get(item, "extracted_claims", EmptyDict)
                  after == IF extracted # JNull /\ "claims" \in DOMAIN extracted
                           THEN LoadClaims(extracted.claims, 0, pmid, f, p, acc)
                           ELSE acc
              IN  IF after.raised THEN after
                  ELSE LoadPapers(data, p + 1, f, after)

\* DecodeFailure that skips the file without recording it
DecodeFailureSilent(acc, f) == acc

\* lines 362-369: except json.JSONDecodeError
DecodeFailure(acc, f) ==
    [acc EXCEPT !.errors = Append(@, ErrFile(f, "JSON Decode Error", "skipped_file"))]

\* one iteration of the loop of line 330, with its except clauses
LoadOneFile(file, f, flat, orig, errors) ==
    LET acc0 == [flat |-> flat, origin |-> orig, errors |-> errors, raised |-> FALSE]
    IN  IF file.kind = "malformed"
        THEN DecodeFailure(acc0, f)
        ELSE IF file.kind = "nonarray"
        THEN [acc0 EXCEPT !.errors =
                Append(@, ErrFile(f, "Expected JSON array of objects", "skipped_file"))]
        ELSE LET acc == LoadPapers(file.data, 1, f, acc0)
             IN  IF acc.raised
                 THEN [acc EXCEPT !.errors =
                         Append(@, ErrFile(f, "exception", "skipped_file"))]
                 ELSE acc

----------------------------------------------------------------------------
(* Replication clustering (lines 379-392) *)

Jaccard07(a, b) ==
    LET intersection == Cardinality(a \cap b)
        union == Cardinality(a \cup b)
    IN  union > 0 /\ 10 * intersection > 7 * union

ClaimTokens(c) == get_tokens(Get(c, "claim_text", <<>>))

\* the inner loop: count for the claim at index i
ClusterCountOf(flat, i) ==
    Cardinality({j \in 1..Len(flat) :
                    /\ j # i
                    /\ ClaimTokens(flat[j]) # {}
                    /\ Jaccard07(ClaimTokens(flat[i]), ClaimTokens(flat[j]))})

\* the outer loop from index i on; counts is the dict built so far
RECURSIVE ClusterLoop(_, _, _)
ClusterLoop(flat, i, counts) ==
    IF i > Len(flat) THEN counts
    ELSE IF ClaimTokens(flat[i]) = {} THEN ClusterLoop(flat, i + 1, counts)
    ELSE ClusterLoop(flat, i + 1,
                     (flat[i]._temp_id :> ClusterCountOf(flat, i)) @@ counts)

----------------------------------------------------------------------------
(* Scoring and ranking (lines 394-460) *)

DefaultCompositeWeights ==
    [match |-> 55, evidence_quality |-> 45, replication_modifier |-> 10,
     contradiction_modifier |-> 35]

DefaultEvidenceQualityWeights ==
    [evidence_strength |-> 50, species_relevance |-> 25, sample_size |-> 25]

\* lines 396-403: the safety defaults
WithDefaults(sc) ==
    LET d1 == IF "match_threshold" \in DOMAIN sc THEN sc
              ELSE sc @@ [match_threshold |-> 20]
        d2 == IF "top_k" \in DOMAIN d1 THEN d1 ELSE d1 @@ [top_k |-> 3]
        d3 == IF "composite_weights" \in DOMAIN d2 THEN d2
              ELSE d2 @@ [composite_weights |-> DefaultCompositeWeights]
    IN  IF "evidence_quality_weights" \in DOMAIN d3 THEN d3
        ELSE d3 @@ [evidence_quality_weights |-> DefaultEvidenceQualityWeights]

\* ConfigAfterDefaults storing into config other weights than the run uses
ConfigAfterDefaultsSkewed(cfg) ==
    IF "validation" \in DOMAIN cfg /\ "scoring" \in DOMAIN cfg.validation
    THEN [cfg EXCEPT !.validation.scoring =
            [WithDefaults(@) EXCEPT !.composite_weights =
                [match |-> 0, evidence_quality |-> 0, replication_modifier |-> 0,
                 contradiction_modifier |-> 0]]]
    ELSE cfg

\* scoring_config is the dict held by config when config has one, so the
\* defaults are stored into config itself
ConfigAfterDefaults(cfg) ==
    IF "validation" \in DOMAIN cfg /\ "scoring" \in DOMAIN cfg.validation
    THEN [cfg EXCEPT !.validation.scoring = WithDefaults(@)]
    ELSE cfg

\* Qualifies without the threshold
QualifiesAlways(match_score, sc) == RatGE(match_score, RatInt(0))

\* line 419
Qualifies(match_score, sc) == RatGE(match_score, RatInt(sc.match_threshold))

\* lines 417-447 from hypothesis k on; acc is [matches, raised]
RECURSIVE MatchLoop(_, _, _, _, _, _, _)
MatchLoop(claim, hyps, k, cfg, sc, rep_score, acc) ==
    IF k > Len(hyps) THEN acc
    ELSE LET hyp == hyps[k]
             match_score == calculate_match_score(claim, hyp, cfg)
         IN  IF ~Qualifies(match_score, sc)
             THEN MatchLoop(claim, hyps, k + 1, cfg, sc, rep_score, acc)
             ELSE IF "id" \notin DOMAIN hyp
             THEN [acc EXCEPT !.raised = TRUE]      \* hyp["id"]: KeyError
             ELSE LET ev_strength == calculate_evidence_strength(claim)
                      sp_relevance == calculate_species_relevance(claim)
                      sz_score == calculate_sample_size_score(claim)
                      contra_score == calculate_contradiction_score(claim, hyp)
                      evidence_quality ==
                          EvidenceQuality(sc, ev_strength, sp_relevance, sz_score)
                      m == [hypothesis_id |-> hyp.id,
                            match_score |-> match_score,
                            composite_score |->
                                Composite(sc, match_score, evidence_quality,
                                          rep_score, contra_score),
                            details |->
                                [evidence_strength |-> ev_strength,
                                 species_relevance |-> sp_relevance,
                                 sample_size_score |-> sz_score,
                                 replication_score |-> rep_score,
                                 contradiction_score |-> contra_score,
                                 evidence_quality |-> evidence_quality]]
                  IN  MatchLoop(claim, hyps, k + 1, cfg, sc, rep_score,
                                [acc EXCEPT !.matches = Append(@, m)])

\* InsertSorted placing an element before the placed elements of equal score
RECURSIVE InsertSortedUnstable(_, _)
InsertSortedUnstable(sorted, m) ==
    IF sorted = <<>> THEN <<m>>
    ELSE IF RatGT(Head(sorted).match_score, m.match_score)
         THEN <<Head(sorted)>> \o InsertSortedUnstable(Tail(sorted), m)
         ELSE <<m>> \o sorted

\* matches.sort(key=match_score, reverse=True): stable, so an element goes
\* behind every element already placed whose score is not lower
RECURSIVE InsertSorted(_, _)
InsertSorted(sorted, m) ==
    IF sorted = <<>> THEN <<m>>
    ELSE IF RatGE(Head(sorted).match_score, m.match_score)
         THEN <<Head(sorted)>> \o InsertSorted(Tail(sorted), m)
         ELSE <<m>> \o sorted

RECURSIVE SortMatches(_, _)
SortMatches(matches, sorted) ==
    IF matches = <<>> THEN sorted
    ELSE SortMatches(Tail(matches), InsertSorted(sorted, Head(matches)))

TopK(matches, top_k) == SubSeq(matches, 1, Min(top_k, Len(matches)))

\* f"PMID-{pmid}-C{seq:02d}": the pmid and the digits of seq, at least two
ClaimId(pmid, seq) ==
    [pmid |-> pmid,
     digits |-> IF seq < 100 THEN <<seq \div 10, seq % 10>>
                ELSE <<seq \div 100, (seq \div 10) % 10, seq % 10>>]

\* the cluster count line 414 passes to calculate_replication_score
ClusterArg(claim, counts) == Get(counts, claim._temp_id, 0)

\* one iteration of the loop of line 406: [raised, rep_arg, top_matches, entry]
ScoreOneClaim(claim, hyps, cfg, sc, counts) ==
    LET rep_arg == ClusterArg(claim, counts)
        rep_score == calculate_replication_score(claim, rep_arg)
        loop == IF rep_score = RaiseInt THEN [matches |-> <<>>, raised |-> TRUE]
                ELSE MatchLoop(claim, hyps, 1, cfg, sc, rep_score,
                               [matches |-> <<>>, raised |-> FALSE])
        top_matches == TopK(SortMatches(loop.matches, <<>>), sc.top_k)
    IN  [raised |-> loop.raised,
         rep_arg |-> rep_arg,
         top_matches |-> top_matches,
         entry |-> [claim_id |-> ClaimId(claim._pmid, claim._seq),
                    claim_text |-> normalize_text(Get(claim, "claim_text", <<>>)),
                    original_text |-> Get(claim, "claim_text", <<>>),
                    normalized_text |-> normalize_text(Get(claim, "claim_text", <<>>)),
                    pmid |-> claim._pmid,
                    matches |-> top_matches]]

\* lines 462-480
BuildOutput(cfg, hyps, tier, validated, errors, flat) ==
    [meta |-> [run_date |-> "2099-01-01", git_sha |-> "sha",
               config_version |-> Get(Get(cfg, "_meta", EmptyDict), "version", "unknown")],
     hypotheses_index |-> [source_tier |-> tier,
                           num_hypotheses |-> Len(hyps),
                           hypothesis_ids |-> [k \in 1..Len(hyps) |-> hyps[k].id]],
     validated_claims |-> validated,
     run_warnings |-> <<>>,
     run_errors |-> errors,
     summary |-> [total_claims_processed |-> Len(flat),
                  claims_validated |-> Len(validated)]]

----------------------------------------------------------------------------
(* Inputs of a run *)

MaxItems == 3   \* papers and files of one run, together
MaxLines == 3   \* lines of a ledger document

cA == [claim_text |-> <<"Senolytic", "X", "reduces", "IL-6">>,
       domain_primary |-> "senescence", study_design |-> "RCT",
       species |-> <<"human">>, sample_size |-> "n=120", p_value |-> "0.01",
       effect_size |-> "large", novelty_flag |-> "novel",
       contradiction_flags |-> [contradicts_existing |-> FALSE]]

cB == [claim_text |-> <<"senolytic", "x", "reduces", "the", "il-6", "levels">>,
       domain_primary |-> "other", novelty_flag |-> "replication",
       contradiction_flags |-> [contradicts_existing |-> TRUE]]

cE == [domain_primary |-> "other"]

cN == [claim_text |-> <<"Senolytic", "X", "reduces", "IL-6">>,
       domain_primary |-> "senescence", novelty_flag |-> NoneStr]

cX == [claim_text |-> <<"Mitochondrial", "dysfunction">>,
       domain_primary |-> "mitochondrial", contradiction_flags |-> JNull]

Paper(pmid, claims) ==
    [input_paper |-> [pmid |-> pmid], extracted_claims |-> [claims |-> claims]]

PaperPool ==
    { [bad_key |-> "no input paper"],             \* no input_paper
      [input_paper |-> JNull],                    \* input_paper is null
      Paper("101", <<cA, cB>>),
      Paper("101", <<cE>>),
      [input_paper |-> EmptyDict, extracted_claims |-> [claims |-> <<cA>>]],
      Paper("202", <<cB, JStr>>),                 \* second claim is a string
      Paper("202", <<cN>>),
      Paper("303", <<cX>>) }

\* A run's claim directory is drawn as a stream of at most MaxItems items: a
\* paper joins the array file being written, "eof" closes that file, and
\* "malformed" / "nonarray" are whole files of those kinds.
Markers == { [marker |-> "eof"], [marker |-> "malformed"], [marker |-> "nonarray"] }

Streams == UNION { [1..n -> PaperPool \cup Markers] : n \in 0..MaxItems }

ArrayFile(papers) == [kind |-> "array", data |-> papers]

RECURSIVE FilesOf(_, _, _)
FilesOf(stream, open, cur) ==
    IF stream = <<>> THEN (IF open THEN <<ArrayFile(cur)>> ELSE <<>>)
    ELSE LET x == Head(stream) IN
         IF "marker" \notin DOMAIN x
         THEN FilesOf(Tail(stream), TRUE, Append(cur, x))
         ELSE (IF open \/ x.marker = "eof" THEN <<ArrayFile(cur)>> ELSE <<>>)
              \o (IF x.marker = "eof" THEN <<>> ELSE << [kind |-> x.marker] >>)
              \o FilesOf(Tail(stream), FALSE, <<>>)

FileSets == { FilesOf(st, FALSE, <<>>) : st \in Streams }

DomainsConfig ==
    << [key |-> "senescence", key_biomarkers |-> << <<"p16">>, <<"il-6">> >>,
        biorxiv_keywords |-> <<>>],
       [key |-> "epigenetic", key_biomarkers |-> << <<"clock">> >>,
        biorxiv_keywords |-> <<>>] >>

\* the configuration of tests/test_validate_hypotheses.py setUp
TestConfig ==
    [_meta |-> [version |-> "test"],
     domains |-> DomainsConfig,
     validation |->
        [scoring |->
            [match_weights |-> DefaultMatchWeights,
             match_threshold |-> 20,
             top_k |-> 3,
             composite_weights |-> DefaultCompositeWeights,
             evidence_quality_weights |-> DefaultEvidenceQualityWeights]]]

\* a configuration that leaves the scoring section to the defaults
BareConfig == [domains |-> DomainsConfig, validation |-> [scoring |-> EmptyDict]]

\* a stricter threshold and a single match per claim
StrictConfig ==
    [domains |-> DomainsConfig,
     validation |-> [scoring |-> [match_threshold |-> 50, top_k |-> 1]]]

HA1 == [id |-> "HYP-A-01", text |-> <<"Senolytics", "reduce", "IL-6", "and",
                                      "inflammation.">>,
        domain |-> "senescence", keywords |-> << <<"senolytic">>, <<"il-6">> >>]
HA2 == [id |-> "HYP-A-02", text |-> <<"senolytic", "x", "reduces", "il6">>,
        domain |-> "epigenetic"]
HNoId == [text |-> <<"Test">>, domain |-> "senescence"]

JList(v) == [t |-> "list", list |-> v]

LedgerFile(block, parsed, lines) ==
    [kind |-> "file", block |-> block, parsed |-> parsed, lines |-> lines]

LedgerAbsent == [kind |-> "absent"]

\* the configurations and ledgers a run of process_claims is given
RunSetups ==
    { [config |-> TestConfig, ledger |-> LedgerAbsent],
      [config |-> TestConfig, ledger |-> [kind |-> "dir"]],
      [config |-> TestConfig, ledger |-> LedgerFile("json", JList(<<HA1, HA2>>), <<>>)],
      [config |-> BareConfig, ledger |-> LedgerFile("json", JList(<<HA1, HNoId>>), <<>>)],
      [config |-> StrictConfig, ledger |-> LedgerFile("json", JList(<<HA1, HA2>>), <<>>)] }

----------------------------------------------------------------------------
(* The status file (scripts/pipeline_utils.py) *)

\* the steps and outputs sections of get_default_status()
get_default_status ==
    [steps |-> [ingest_pubmed |-> [status |-> "pending", count |-> 0],
                extract_claims |-> [status |-> "pending", count |-> 0],
                sync_to_drive |-> [status |-> "pending", count |-> 0]],
     outputs |-> [ingest_dir |-> "", claims_dir |-> "", claims_summary |-> ""]]

\* the parameters of def update_status
UpdateStatusParams == {"step_name", "status", "count", "error", "outputs"}

\* d[k] = v on a dict
Put(d, k, v) == [x \in DOMAIN d \cup {k} |-> IF x = k THEN v ELSE d[x]]

\* update_status called with the keyword arguments kwargs (a record; step_name
\* and status are always given): TypeError for a keyword that is no parameter,
\* otherwise the status file after the call
update_status(data, kwargs) ==
    IF ~(DOMAIN kwargs \subseteq UpdateStatusParams) THEN RAISE
    ELSE LET step_name == kwargs.step_name
             old == Get(data.steps, step_name, EmptyDict)
             e1 == Put(old, "status", kwargs.status)
             e2 == IF "count" \in DOMAIN kwargs THEN Put(e1, "count", kwargs.count) ELSE e1
             e3 == IF "error" \in DOMAIN kwargs THEN Put(e2, "error", kwargs.error) ELSE e2
             outs == Get(kwargs, "outputs", EmptyDict)
             outputs == [x \in DOMAIN data.outputs \cup DOMAIN outs |->
                            IF x \in DOMAIN outs THEN outs[x] ELSE data.outputs[x]]
         IN  [x \in DOMAIN data |->
                 IF x = "steps" THEN Put(data.steps, step_name, e3)
                 ELSE IF x = "outputs" THEN outputs
                 ELSE data[x]]

NoResult == [no_result |-> TRUE]

----------------------------------------------------------------------------
(* A run of process_claims *)

\* nothing of the extraction client, the status file or the extraction runs
\* takes part
ServicesIdle ==
    /\ models_to_try = <<>>
    /\ mi = 1
    /\ attempt = 1
    /\ total_sleep = 0
    /\ posts = <<>>
    /\ tried = <<>>
    /\ last_sleep = NoResult
    /\ github_run_id = "local_run"
    /\ last_call = NoResult
    /\ initialized = FALSE
    /\ ingest = <<>>
    /\ claims_out = <<>>
    /\ total_processed = 0
    /\ max_papers = 0
    /\ quota_faults = 0

Fresh ==
    /\ ServicesIdle
    /\ exc = ""
    /\ hypotheses = <<>>
    /\ source_tier = ""
    /\ fi = 1
    /\ run_errors = <<>>
    /\ all_claims_flat = <<>>
    /\ origin = <<>>
    /\ cluster_counts = EmptyDict
    /\ scoring_config = EmptyDict
    /\ ci = 1
    /\ rep_args = <<>>
    /\ validated_claims = <<>>
    /\ validated_from = <<>>
    /\ output_data = NoFile
    /\ tmp_file = NoFile
    /\ report_file = NoFile
    /\ status = get_default_status
    /\ run = 1
    /\ loaded_config = config
    /\ previous_report = NoFile
    /\ result = NoResult

Init ==
    /\ pc = "start"
    /\ \E setup \in RunSetups : config = setup.config /\ ledger = setup.ledger
    /\ claims_files \in FileSets
    /\ Fresh

\* lines 311-324: the run date, the glob, the early return.
\* pipeline_utils.get_run_date_utc, get_results_dir and get_git_sha are not
\* defined in scripts/pipeline_utils.py; their values are taken as given
\* (a fixed run date, results directory and sha).  update_status is defined
\* there, without a config parameter.
Start ==
    /\ pc = "start"
    /\ pc' = IF claims_files = <<>> THEN "no_claims" ELSE "load_hypotheses"
    /\ UNCHANGED <<exc, config, ledger, client_vars, status_vars, extract_vars, status, run, loaded_config,
                   previous_report, result, claims_files, hypotheses, source_tier, fi,
                   run_errors, all_claims_flat, origin, cluster_counts,
                   scoring_config, ci, rep_args, validated_claims, validated_from, output_data,
                   tmp_file, report_file>>

\* lines 320-324: update_status("validate_hypotheses", "success", count=0,
\* config=config), print_handoff, return.  pipeline_utils.update_status has no
\* config parameter, so the call raises TypeError
NoClaims ==
    /\ pc = "no_claims"
    /\ LET r == update_status(status, [step_name |-> "validate_hypotheses",
                                       status |-> "success", count |-> 0,
                                       config |-> config])
       IN  IF r = RAISE
           THEN /\ pc' = "raised"
                /\ exc' = "TypeError"
                /\ UNCHANGED status
           ELSE /\ pc' = "done"
                /\ status' = r
                /\ UNCHANGED exc
    /\ UNCHANGED <<config, ledger, client_vars, status_vars, extract_vars, run, loaded_config, previous_report, result,
                   claims_files, hypotheses, source_tier, fi,
                   run_errors, all_claims_flat, origin, cluster_counts,
                   scoring_config, ci, rep_args, validated_claims, validated_from,
                   output_data, tmp_file, report_file>>

\* line 326
LoadHypotheses ==
    /\ pc = "load_hypotheses"
    /\ LET r == load_hypotheses(config, ledger) IN
         IF r = RAISE
         THEN /\ pc' = "raised"
              /\ exc' = "load_hypotheses"
              /\ UNCHANGED <<hypotheses, source_tier>>
         ELSE /\ pc' = "load_files"
              /\ hypotheses' = r.hypotheses
              /\ source_tier' = r.tier
              /\ UNCHANGED exc
    /\ UNCHANGED <<config, ledger, client_vars, status_vars, extract_vars, status, run, loaded_config,
                   previous_report, result, claims_files, fi, run_errors, all_claims_flat,
                   origin, cluster_counts, scoring_config, ci, rep_args,
                   validated_claims, validated_from, output_data, tmp_file, report_file>>

\* one iteration of the loop of lines 330-377
LoadFile ==
    /\ pc = "load_files"
    /\ fi <= Len(claims_files)
    /\ LET acc == LoadOneFile(claims_files[fi], fi, all_claims_flat, origin, run_errors)
       IN  /\ all_claims_flat' = acc.flat
           /\ origin' = acc.origin
           /\ run_errors' = acc.errors
    /\ fi' = fi + 1
    /\ pc' = IF fi = Len(claims_files) THEN "cluster" ELSE "load_files"
    /\ UNCHANGED <<exc, config, ledger, client_vars, status_vars, extract_vars, status, run, loaded_config,
                   previous_report, result, claims_files, hypotheses, source_tier,
                   cluster_counts, scoring_config, ci, rep_args, validated_claims,
                   validated_from, output_data, tmp_file, report_file>>

\* lines 379-403: the clustering pass and the scoring defaults
Cluster ==
    /\ pc = "cluster"
    /\ cluster_counts' = ClusterLoop(all_claims_flat, 1, EmptyDict)
    /\ scoring_config' = WithDefaults(Scoring(config))
    /\ config' = ConfigAfterDefaults(config)
    /\ pc' = IF all_claims_flat = <<>> THEN "assemble" ELSE "score"
    /\ UNCHANGED <<exc, ledger, client_vars, status_vars, extract_vars, status, run, loaded_config,
                   previous_report, result, claims_files, hypotheses, source_tier, fi,
                   run_errors, all_claims_flat, origin, ci, rep_args,
                   validated_claims, validated_from, output_data, tmp_file,
                   report_file>>

\* one iteration of the loop of lines 406-460
Score ==
    /\ pc = "score"
    /\ ci <= Len(all_claims_flat)
    /\ LET r == ScoreOneClaim(all_claims_flat[ci], hypotheses, config,
                              scoring_config, cluster_counts)
       IN  /\ rep_args' = Append(rep_args, r.rep_arg)
           /\ IF r.raised
              THEN /\ pc' = "raised"
                   /\ exc' = "scoring"
                   /\ UNCHANGED <<validated_claims, validated_from, ci>>
              ELSE /\ validated_claims' = IF r.top_matches # <<>>
                                          THEN Append(validated_claims, r.entry)
                                          ELSE validated_claims
                   /\ validated_from' = IF r.top_matches # <<>>
                                        THEN Append(validated_from, ci)
                                        ELSE validated_from
                   /\ ci' = ci + 1
                   /\ pc' = IF ci = Len(all_claims_flat) THEN "assemble" ELSE "score"
                   /\ UNCHANGED exc
    /\ UNCHANGED <<config, ledger, client_vars, status_vars, extract_vars, status, run, loaded_config,
                   previous_report, result, claims_files, hypotheses, source_tier, fi,
                   run_errors, all_claims_flat, origin, cluster_counts,
                   scoring_config, output_data, tmp_file, report_file>>

\* lines 462-480; h["id"] raises KeyError for a hypothesis without an id
Assemble ==
    /\ pc = "assemble"
    /\ IF \E k \in 1..Len(hypotheses) : "id" \notin DOMAIN hypotheses[k]
       THEN /\ pc' = "raised"
            /\ exc' = "KeyError"
            /\ UNCHANGED output_data
       ELSE /\ pc' = "write_tmp"
            /\ output_data' = BuildOutput(config, hypotheses, source_tier,
                                          validated_claims, run_errors,
                                          all_claims_flat)
            /\ UNCHANGED exc
    /\ UNCHANGED <<config, ledger, client_vars, status_vars, extract_vars, status, run, loaded_config,
                   previous_report, result, claims_files, hypotheses, source_tier, fi,
                   run_errors, all_claims_flat, origin, cluster_counts,
                   scoring_config, ci, rep_args, validated_claims, validated_from,
                   tmp_file, report_file>>

\* lines 485-487: json.dump into validated_claims.json.tmp
WriteTmp ==
    /\ pc = "write_tmp"
    /\ tmp_file' = output_data
    /\ pc' = "rename"
    /\ UNCHANGED <<exc, config, ledger, client_vars, status_vars, extract_vars, status, run, loaded_config,
                   previous_report, result, claims_files, hypotheses, source_tier, fi,
                   run_errors, all_claims_flat, origin, cluster_counts,
                   scoring_config, ci, rep_args, validated_claims, validated_from, output_data,
                   report_file>>

\* line 488: os.rename(temp_path, output_path)
Rename ==
    /\ pc = "rename"
    /\ report_file' = tmp_file
    /\ tmp_file' = NoFile
    /\ pc' = "update_status"
    /\ UNCHANGED <<exc, config, ledger, client_vars, status_vars, extract_vars, status, run, loaded_config,
                   previous_report, result, claims_files, hypotheses, source_tier, fi,
                   run_errors, all_claims_flat, origin, cluster_counts,
                   scoring_config, ci, rep_args, validated_claims, validated_from,
                   output_data>>

\* lines 492-498: update_status("validate_hypotheses", "success",
\* count=len(validated_claims), outputs={...}, config=config), as in NoClaims
UpdateStatus ==
    /\ pc = "update_status"
    /\ LET r == update_status(status, [step_name |-> "validate_hypotheses",
                                       status |-> "success",
                                       count |-> Len(validated_claims),
                                       outputs |-> [validated_claims |-> "output_path"],
                                       config |-> config])
       IN  IF r = RAISE
           THEN /\ pc' = "raised"
                /\ exc' = "TypeError"
                /\ UNCHANGED status
           ELSE /\ pc' = "done"
                /\ status' = r
                /\ UNCHANGED exc
    /\ UNCHANGED <<config, ledger, client_vars, status_vars, extract_vars, run, loaded_config, previous_report, result,
                   claims_files, hypotheses, source_tier, fi,
                   run_errors, all_claims_flat, origin, cluster_counts,
                   scoring_config, ci, rep_args, validated_claims, validated_from,
                   output_data, tmp_file, report_file>>

Next ==
    \/ Start
    \/ NoClaims
    \/ LoadHypotheses
    \/ LoadFile
    \/ Cluster
    \/ Score
    \/ Assemble
    \/ WriteTmp
    \/ Rename
    \/ UpdateStatus

Spec == Init /\ [][Next]_vars

----------------------------------------------------------------------------
(* load_hypotheses on its own, over the states of the ledger path *)

LinePool ==
    { [k |-> "hyp", id |-> "HYP-B-01", text |-> <<"Minimal", "Hypothesis">>],
      [k |-> "hyp", id |-> "HYP-B-02", text |-> <<"Full", "Hypothesis">>],
      [k |-> "keywords", v |-> <<"senolytic", " ", "p16">>],
      [k |-> "tags", v |-> <<"aging", "Cellular Senescence">>],
      [k |-> "tags", v |-> <<"aging">>],
      [k |-> "tags", v |-> <<"Unknown mechanism", "Cellular Senescence">>],
      [k |-> "expected", raw |-> [target |-> "IL-6", direction |-> "decrease"]],
      [k |-> "for", v |-> <<"PMID:123", "PMID:456">>],
      [k |-> "other"] }

Documents == UNION { [1..n -> LinePool] : n \in 0..MaxLines }

JDict(v) == [t |-> "dict", dict |-> v]

\* what the sentinel block holds: [block, parsed]
Blocks ==
    { [block |-> "none", parsed |-> JNull],
      [block |-> "blank", parsed |-> JNull],
      [block |-> "invalid", parsed |-> JNull],
      [block |-> "json", parsed |-> JList(<<>>)],
      [block |-> "json", parsed |-> JList(<<HA1>>)],
      [block |-> "json", parsed |-> [t |-> "num", num |-> 5]],
      [block |-> "json", parsed |-> JDict([registry_version |-> "1.0"])],
      [block |-> "json", parsed |-> JDict([hypotheses |-> JList(<<HA2>>)])],
      [block |-> "json", parsed |-> JDict([hypotheses |-> JList(<<>>)])],
      [block |-> "json", parsed |-> JDict([hypotheses |-> [t |-> "null"]])],
      [block |-> "json", parsed |-> JDict([hypotheses |-> [t |-> "num", num |-> 5]])] }

Ledgers ==
    { LedgerAbsent, [kind |-> "dir"], [kind |-> "unreadable"] } \cup
    { LedgerFile(b.block, b.parsed, doc) : b \in Blocks, doc \in Documents }

\* a configuration with a domain whose key is "unknown"
UnknownDomainConfig ==
    [TestConfig EXCEPT !.domains =
        << [key |-> "senescence", key_biomarkers |-> << <<"p16">>, <<"il-6">> >>,
            biorxiv_keywords |-> <<>>],
           [key |-> "unknown", key_biomarkers |-> <<>>, biorxiv_keywords |-> <<>>] >>]

LedgerConfigs == {TestConfig, UnknownDomainConfig}

InitLedger ==
    /\ pc = "call_load_hypotheses"
    /\ config \in LedgerConfigs
    /\ ledger \in Ledgers
    /\ claims_files = <<>>
    /\ Fresh

\* a call of load_hypotheses(config) and its return or exception
CallLoadHypotheses ==
    /\ pc = "call_load_hypotheses"
    /\ LET r == load_hypotheses(config, ledger) IN
         IF r = RAISE
         THEN /\ pc' = "raised"
              /\ exc' = "load_hypotheses"
              /\ UNCHANGED <<hypotheses, source_tier>>
         ELSE /\ pc' = "returned"
              /\ hypotheses' = r.hypotheses
              /\ source_tier' = r.tier
              /\ UNCHANGED exc
    /\ UNCHANGED <<config, ledger, client_vars, status_vars, extract_vars, status, run, loaded_config,
                   previous_report, result, claims_files, fi, run_errors, all_claims_flat,
                   origin, cluster_counts, scoring_config, ci, rep_args,
                   validated_claims, validated_from, output_data, tmp_file,
                   report_file>>

NextLedger == CallLoadHypotheses

SpecLedger == InitLedger /\ [][NextLedger]_vars

----------------------------------------------------------------------------
(* Crashes during the write, and a second run over the same inputs *)

MaxRerunItems == 1   \* papers and files of a run that is repeated

\* the top-level keys of the report in the order json.dump writes them
ReportSections == <<"meta", "hypotheses_index", "validated_claims",
                    "run_warnings", "run_errors", "summary">>

\* the file when json.dump has written the first k sections of data
Prefix(data, k) == [x \in {ReportSections[i] : i \in 1..k} |-> data[x]]

\* lines 485-487 cut short after k sections, with the file named temp_path
\* open for writing, the other path untouched: InterruptedDumpInPlace writes
\* to output_path itself
InterruptedDumpInPlace(tmp_f, report_f, data, k) ==
    [tmp |-> tmp_f, report |-> Prefix(data, k)]

InterruptedDump(tmp_f, report_f, data, k) ==
    [tmp |-> Prefix(data, k), report |-> report_f]

InitRerun ==
    /\ pc = "start"
    /\ \E setup \in RunSetups : config = setup.config /\ ledger = setup.ledger
    /\ claims_files \in { FilesOf(st, FALSE, <<>>) :
                            st \in UNION { [1..n -> PaperPool \cup Markers] :
                                             n \in 0..MaxRerunItems } }
    /\ Fresh

\* the process dies before line 485 opens temp_path, inside the with block of
\* lines 485-487, between the with block and os.rename, or after os.rename;
\* the files stay as they are
Crash ==
    /\ pc \in {"write_tmp", "rename", "update_status"}
    /\ pc' = "crashed"
    /\ IF pc = "write_tmp"
       THEN \/ UNCHANGED <<tmp_file, report_file>>
            \/ \E k \in 0..(Len(ReportSections) - 1) :
                  LET files == InterruptedDump(tmp_file, report_file, output_data, k)
                  IN  tmp_file' = files.tmp /\ report_file' = files.report
       ELSE UNCHANGED <<tmp_file, report_file>>
    /\ UNCHANGED <<exc, config, ledger, client_vars, status_vars, extract_vars, claims_files, hypotheses, source_tier, fi,
                   run_errors, all_claims_flat, origin, cluster_counts,
                   scoring_config, ci, rep_args, validated_claims, validated_from,
                   output_data, status, run, loaded_config, previous_report, result>>

\* process_claims is called again over the same claim files and ledger: by the
\* same process with the config object of the first call, or by a new process
\* with the configuration loaded again
Rerun ==
    /\ pc \in {"raised", "done", "crashed"}
    /\ run = 1
    /\ run' = 2
    /\ pc' = "start"
    /\ previous_report' = report_file
    /\ \/ pc # "crashed" /\ UNCHANGED config
       \/ config' = loaded_config
    /\ exc' = ""
    /\ hypotheses' = <<>>
    /\ source_tier' = ""
    /\ fi' = 1
    /\ run_errors' = <<>>
    /\ all_claims_flat' = <<>>
    /\ origin' = <<>>
    /\ cluster_counts' = EmptyDict
    /\ scoring_config' = EmptyDict
    /\ ci' = 1
    /\ rep_args' = <<>>
    /\ validated_claims' = <<>>
    /\ validated_from' = <<>>
    /\ output_data' = NoFile
    /\ UNCHANGED <<ledger, client_vars, status_vars, extract_vars, claims_files, tmp_file, report_file, status,
                   loaded_config, result>>

NextRerun ==
    \/ Next
    \/ Crash
    \/ Rerun

SpecRerun == InitRerun /\ [][NextRerun]_vars

----------------------------------------------------------------------------
(* The scoring functions on their own, in the state process_claims is in at  *)
(* line 405: one loaded claim, the hypotheses, the configuration            *)

MaxHyps == 3    \* hypotheses of the list a claim is scored against

\* every optional field null
cNull == [claim_text |-> <<"Senolytic", "X", "reduces", "IL-6">>,
          domain_primary |-> "senescence", study_design |-> NoneStr,
          species |-> <<>>, sample_size |-> NoneStr, effect_size |-> NoneStr,
          p_value |-> NoneStr, limitations_noted |-> <<>>,
          contradiction_flags |-> JNull]

\* every optional field empty
cEmpty == [claim_text |-> <<"p16", "X", "reduces", "IL-6">>,
           domain_primary |-> "senescence", study_design |-> "",
           species |-> <<>>, sample_size |-> "", effect_size |-> "",
           p_value |-> "", limitations_noted |-> <<>>,
           novelty_flag |-> "", contradiction_flags |-> EmptyDict]

\* the strongest evidence the calculators know
cMax == [claim_text |-> <<"Senolytics", "reduce", "IL-6", "and", "inflammation.">>,
         domain_primary |-> "senescence", study_design |-> "Meta Analysis",
         species |-> <<"mouse", "human">>,
         sample_size |-> "50000 participants (2 cohorts)",
         effect_size |-> "OR 1.5 (95% CI 1.1-2.0)", p_value |-> "0.01",
         novelty_flag |-> "replication",
         contradiction_flags |-> [contradicts_existing |-> FALSE]]

\* weak evidence with many limitations, contradicting and novel
cMin == [claim_text |-> <<"Senolytic", "X", "reduces", "IL-6">>,
         domain_primary |-> "other", study_design |-> "In Vitro",
         species |-> <<"HeLa cells">>, sample_size |-> "0",
         limitations_noted |-> <<"l1", "l2", "l3", "l4", "l5">>,
         novelty_flag |-> "novel",
         contradiction_flags |-> [contradicts_existing |-> TRUE,
                                  contradiction_notes |-> "note"]]

\* a small cohort
cSmall == [claim_text |-> <<"Mitochondrial", "dysfunction">>,
           domain_primary |-> "mitochondrial", study_design |-> "Cohort",
           species |-> <<"rhesus monkey">>, sample_size |-> "n=5",
           limitations_noted |-> <<"l1">>]

\* the claim of tests/test_validate_hypotheses.py test_scoring_logic
cScenario == [claim_text |-> <<"Senolytic", "X", "reduces", "IL-6", "levels",
                               "in", "humans.">>,
              domain_primary |-> "senescence", study_design |-> "RCT",
              species |-> <<"human">>, sample_size |-> "n=120",
              p_value |-> "0.01", effect_size |-> "large",
              novelty_flag |-> "extension",
              contradiction_flags |-> [contradicts_existing |-> FALSE]]

ScoreClaims == {cA, cB, cE, cN, cX, cNull, cEmpty, cMax, cMin, cSmall, cScenario}

\* HA1 under another id
HA3 == [id |-> "HYP-A-03", text |-> <<"Senolytics", "reduce", "IL-6", "and",
                                      "inflammation.">>,
        domain |-> "senescence", keywords |-> << <<"senolytic">>, <<"il-6">> >>]

\* no keywords of its own: the keywords of its domain are used
HA4 == [id |-> "HYP-A-04", text |-> <<"Senolytic", "X", "reduces", "IL-6">>,
        domain |-> "senescence"]

HypPool == {HA1, HA2, HA3, HA4, HNoId}

\* lists of different hypotheses
HypLists ==
    { hs \in UNION { [1..n -> HypPool] : n \in 0..MaxHyps } :
        \A k, l \in 1..Len(hs) : k # l => hs[k] # hs[l] }

\* weights that sum to 3, a composite that leaves [0, 100] upwards
HeavyConfig ==
    [domains |-> DomainsConfig,
     validation |->
        [scoring |->
            [match_weights |-> [domain_overlap |-> 100, token_jaccard |-> 100,
                                entity_score |-> 100],
             match_threshold |-> 0,
             top_k |-> 1,
             composite_weights |-> [match |-> 200, evidence_quality |-> 200,
                                    replication_modifier |-> 100,
                                    contradiction_modifier |-> 0],
             evidence_quality_weights |-> [evidence_strength |-> 100,
                                           species_relevance |-> 100,
                                           sample_size |-> 100]]]]

\* mappings that give only some of the weights, a composite that leaves
\* [0, 100] downwards
PartialConfig ==
    [domains |-> DomainsConfig,
     validation |->
        [scoring |->
            [match_weights |-> [domain_overlap |-> 90],
             match_threshold |-> 0,
             top_k |-> 2,
             composite_weights |-> [contradiction_modifier |-> 500],
             evidence_quality_weights |-> [sample_size |-> 0]]]]

ScoreConfigs == {TestConfig, BareConfig, StrictConfig, HeavyConfig, PartialConfig}

InitScore ==
    /\ pc = "call"
    /\ \E cfg \in ScoreConfigs :
          /\ config = ConfigAfterDefaults(cfg)
          /\ scoring_config = WithDefaults(Scoring(cfg))
          /\ loaded_config = cfg
    /\ ledger = LedgerAbsent
    /\ claims_files = <<>>
    /\ hypotheses \in HypLists
    /\ \E claim \in ScoreClaims, n \in {0, 1, 4} :
          /\ all_claims_flat = <<Provenance(claim, "101", 0)>>
          /\ cluster_counts = IF n = 0 THEN EmptyDict ELSE (TempId("101", 0) :> n)
    /\ source_tier = "A"
    /\ exc = ""
    /\ fi = 1
    /\ run_errors = <<>>
    /\ origin = <<>>
    /\ ci = 1
    /\ rep_args = <<>>
    /\ validated_claims = <<>>
    /\ validated_from = <<>>
    /\ output_data = NoFile
    /\ tmp_file = NoFile
    /\ report_file = NoFile
    /\ status = get_default_status
    /\ run = 1
    /\ previous_report = NoFile
    /\ result = NoResult
    /\ ServicesIdle

\* the call fn(args) and how it ends: by returning value, or by an exception
Returns(fn, h, raised, value) ==
    /\ pc = "call"
    /\ result' = [fn |-> fn, h |-> h, raised |-> raised, value |-> value]
    /\ pc' = IF raised THEN "raised" ELSE "returned"
    /\ UNCHANGED <<exc, config, ledger, client_vars, status_vars, extract_vars, claims_files, hypotheses, source_tier, fi,
                   run_errors, all_claims_flat, origin, cluster_counts,
                   scoring_config, ci, rep_args, validated_claims, validated_from,
                   output_data, tmp_file, report_file, status, run, loaded_config,
                   previous_report>>

CallMatchScore ==
    \E h \in 1..Len(hypotheses) :
        Returns("calculate_match_score", h, FALSE,
                calculate_match_score(all_claims_flat[1], hypotheses[h], config))

CallEvidenceStrength ==
    Returns("calculate_evidence_strength", 0, FALSE,
            calculate_evidence_strength(all_claims_flat[1]))

CallSpeciesRelevance ==
    Returns("calculate_species_relevance", 0, FALSE,
            calculate_species_relevance(all_claims_flat[1]))

CallSampleSizeScore ==
    Returns("calculate_sample_size_score", 0, FALSE,
            calculate_sample_size_score(all_claims_flat[1]))

CallContradictionScore ==
    \E h \in 1..Len(hypotheses) :
        LET v == calculate_contradiction_score(all_claims_flat[1], hypotheses[h])
        IN  Returns("calculate_contradiction_score", h, v = RaiseInt, v)

\* the body of the loop of line 406 for the claim
CallScoreClaim ==
    LET r == ScoreOneClaim(all_claims_flat[1], hypotheses, config, scoring_config,
                           cluster_counts)
    IN  Returns("score_claim", 0, r.raised, r)

NextScore ==
    \/ CallMatchScore
    \/ CallEvidenceStrength
    \/ CallSpeciesRelevance
    \/ CallSampleSizeScore
    \/ CallContradictionScore
    \/ CallScoreClaim

SpecScore == InitScore /\ [][NextScore]_vars

----------------------------------------------------------------------------
(* The extraction client (scripts/gemini_client.py): one call of            *)
(* GeminiClient.extract_claims, the service answering every request          *)

\* the variables of the validation engine, which take no part here
validation_vars == <<config, ledger, claims_files, hypotheses, source_tier,
                     run_errors, all_claims_flat, origin, cluster_counts,
                     scoring_config, ci, rep_args, validated_claims,
                     validated_from, output_data, tmp_file, report_file, run,
                     loaded_config, previous_report>>

ValidationIdle ==
    /\ config = EmptyDict
    /\ ledger = LedgerAbsent
    /\ claims_files = <<>>
    /\ hypotheses = <<>>
    /\ source_tier = ""
    /\ run_errors = <<>>
    /\ all_claims_flat = <<>>
    /\ origin = <<>>
    /\ cluster_counts = EmptyDict
    /\ scoring_config = EmptyDict
    /\ ci = 1
    /\ rep_args = <<>>
    /\ validated_claims = <<>>
    /\ validated_from = <<>>
    /\ output_data = NoFile
    /\ tmp_file = NoFile
    /\ report_file = NoFile
    /\ run = 1
    /\ loaded_config = EmptyDict
    /\ previous_report = NoFile

MaxModels == 2   \* models of a client: the primary one and its fallbacks

ALLOWED_GEMINI_MODELS == {"gemini-2.5-flash-lite", "gemini-2.5-flash"}

max_attempts == 5
base_backoff == 60        \* seconds
max_sleep_total == 600    \* seconds

\* model.strip()
StripModel(model) ==
    IF model = " gemini-2.5-flash " THEN "gemini-2.5-flash" ELSE model

\* AllowedAny lets every model through
AllowedAny(model) == TRUE

\* lines 88-90: the model may be requested
Allowed(model) == StripModel(model) \in ALLOWED_GEMINI_MODELS

ModelPool == {"gemini-2.5-flash-lite", " gemini-2.5-flash ", "gemini-3-flash"}

\* model_name followed by fallback_models, all different
ModelLists ==
    { ms \in UNION { [1..n -> ModelPool] : n \in 1..MaxModels } :
        \A k, l \in 1..Len(ms) : k # l => ms[k] # ms[l] }

\* What the service answers.  A 200 carries the text of the first candidate
\* (kind of text below); a 429 carries the error message, the headers and the
\* error details; NetworkError is requests.post raising RequestException.
Ok200(text) == [status_code |-> 200, text |-> text]
Http429(message, headers, details) ==
    [status_code |-> 429, message |-> message, headers |-> headers,
     details |-> details]
NetworkError == [network_error |-> TRUE]

RetryAfter(seconds) == ("Retry-After" :> seconds)

ResponsePool ==
    { Ok200("claims"),          \* '{"claims": []}'
      Ok200("empty_object"),    \* '{}'
      Ok200("no_candidates"),   \* "candidates" is missing or empty
      Ok200("no_parts"),        \* the candidate's content has no parts
      Http429("Rate limit", EmptyDict, <<>>),
      Http429("Rate limit", RetryAfter("10"), <<>>),
      Http429("Rate limit", RetryAfter("100"), <<>>),
      Http429("Rate limit", RetryAfter("700"), <<>>),
      Http429("Rate limit", EmptyDict, <<[retryDelay |-> "90s"]>>),
      Http429("Quota exceeded ... limit: 0", EmptyDict, <<>>),
      [status_code |-> 500],
      NetworkError }

\* random.uniform(0, 1), in whole seconds
Jitter == {0, 1}

\* float(s) on the texts used; RaiseInt is ValueError
ParseFloat(s) ==
    CASE s = "10" -> 10
      [] s = "90" -> 90
      [] s = "100" -> 100
      [] s = "700" -> 700
      [] OTHER -> RaiseInt

\* d[:-1] when d.endswith("s")
SecondsText(d) == IF d = "90s" THEN "90" ELSE NoneStr

\* lines 167-179: the retryDelay of the last detail that has one
RECURSIVE JsonDelay(_, _)
JsonDelay(details, acc) ==
    IF details = <<>> THEN acc
    ELSE LET d == Get(Head(details), "retryDelay", NoneStr)
             v == IF SecondsText(d) = NoneStr THEN acc
                  ELSE ParseFloat(SecondsText(d))
         IN  IF v = RaiseInt THEN acc      \* float() raises: except Exception
             ELSE JsonDelay(Tail(details), v)

Pow2(k) == IF k = 0 THEN 1 ELSE IF k = 1 THEN 2 ELSE IF k = 2 THEN 4
           ELSE IF k = 3 THEN 8 ELSE 16

\* lines 151-181: max(backoff, header_delay, json_delay)
calculate_retry_delay(response, att, jitter) ==
    LET backoff == base_backoff * Pow2(att - 1) + jitter
        retry_after == Get(response.headers, "Retry-After", "")
        header_delay == IF retry_after = "" \/ ParseFloat(retry_after) = RaiseInt
                        THEN 0 ELSE ParseFloat(retry_after)
        json_delay == JsonDelay(response.details, 0)
    IN  Max(backoff, Max(header_delay, json_delay))

\* lines 183-228 on the kinds of text above: the parsed object, None (JNull)
\* or IndexError (RAISE)
parse_response(text) ==
    CASE text = "claims" -> [claims |-> <<>>]
      [] text = "empty_object" -> EmptyDict
      [] text = "no_candidates" -> JNull
      [] OTHER -> RAISE

\* "limit: 0" in message or "limit:0" in message
HardLimit(message) ==
    message \in {"Quota exceeded ... limit: 0", "limit: 0", "limit:0"}

\* OverBudgetNever never gives up
OverBudgetNever(slept, delay) == FALSE

\* line 131
OverBudget(slept, delay) == slept + delay > max_sleep_total

\* One pass of the loop body of lines 113-146 on the response received:
\*   [kind |-> "return", value, why]   return value
\*   [kind |-> "raise", why]           an exception leaves the function
\*   [kind |-> "sleep", delay]         time.sleep(delay), total_sleep += delay
AttemptOutcome(response, att, slept, jitter) ==
    IF response = NetworkError
    THEN [kind |-> "return", value |-> JNull, why |-> "network_error"]
    ELSE IF response.status_code = 200
    THEN LET parsed == parse_response(response.text)
         IN  IF parsed = RAISE THEN [kind |-> "raise", why |-> "parse_exception"]
             ELSE [kind |-> "return", value |-> parsed, why |-> "response"]
    ELSE IF response.status_code = 429
    THEN IF HardLimit(response.message)
         THEN [kind |-> "raise", why |-> "quota_hard_limit"]
         ELSE LET delay == calculate_retry_delay(response, att, jitter)
              IN  IF OverBudget(slept, delay)
                  THEN [kind |-> "return", value |-> JNull, why |-> "max_sleep"]
                  ELSE [kind |-> "sleep", delay |-> delay]
    ELSE [kind |-> "return", value |-> JNull, why |-> "http_error"]

\* `if result:` of line 66
TruthyResult(v) == v # JNull /\ DOMAIN v # {}

QuotaResult == [error |-> "quota_exhausted", reason |-> "all_models_failed"]

\* how the call of _generate_content_with_retry for a model ended
Ended(model, outcome, requests, sleeps) ==
    [model |-> model, outcome |-> outcome, requests |-> requests, sleeps |-> sleeps]

InitGemini ==
    /\ pc = "model"
    /\ models_to_try \in ModelLists
    /\ mi = 1
    /\ attempt = 1
    /\ total_sleep = 0
    /\ posts = <<>>
    /\ tried = <<>>
    /\ last_sleep = NoResult
    /\ exc = ""
    /\ result = NoResult
    /\ fi = 1
    /\ status = NoFile
    /\ github_run_id = "local_run"
    /\ last_call = NoResult
    /\ initialized = FALSE
    /\ ingest = <<>>
    /\ claims_out = <<>>
    /\ total_processed = 0
    /\ max_papers = 0
    /\ quota_faults = 0
    /\ ValidationIdle

\* lines 62-65 and 88-110: the loop takes the next model and calls
\* _generate_content_with_retry, which refuses a model that is not allowed;
\* extract_claims lets the ValueError through (lines 71-72)
TryModel ==
    /\ pc = "model"
    /\ mi <= Len(models_to_try)
    /\ IF Allowed(models_to_try[mi])
       THEN /\ pc' = "request"
            /\ attempt' = 1
            /\ total_sleep' = 0
            /\ UNCHANGED <<exc, tried>>
       ELSE /\ pc' = "raised"
            /\ exc' = "ValueError"
            /\ tried' = Append(tried, Ended(StripModel(models_to_try[mi]),
                                            "not_allowed", 0, 0))
            /\ UNCHANGED <<attempt, total_sleep>>
    /\ UNCHANGED <<models_to_try, mi, posts, last_sleep, result, fi, status,
                   status_vars, extract_vars, validation_vars>>

\* lines 112-149 and 66-77: one request to the model, the response, and what
\* the client does with it
Post ==
    /\ pc = "request"
    /\ \E response \in ResponsePool, jitter \in Jitter :
          LET model == StripModel(models_to_try[mi])
              o == AttemptOutcome(response, attempt, total_sleep, jitter)
          IN  /\ posts' = Append(posts, model)
              /\ IF o.kind = "sleep"
                 THEN /\ total_sleep' = total_sleep + o.delay
                      /\ last_sleep' = [model |-> model, attempt |-> attempt,
                                        retry_after |-> Get(response.headers,
                                                            "Retry-After", ""),
                                        delay |-> o.delay]
                      /\ IF attempt < max_attempts
                         THEN /\ attempt' = attempt + 1
                              /\ UNCHANGED <<pc, mi, tried>>
                         ELSE \* line 148: the loop is over, return None
                              /\ tried' = Append(tried, Ended(model, "max_attempts",
                                                              attempt, attempt))
                              /\ mi' = mi + 1
                              /\ pc' = "model"
                              /\ UNCHANGED attempt
                      /\ UNCHANGED result
                 ELSE /\ UNCHANGED <<total_sleep, last_sleep, attempt>>
                      /\ IF o.kind = "return" /\ TruthyResult(o.value)
                         THEN /\ tried' = Append(tried, Ended(model, "result",
                                                              attempt, attempt - 1))
                              /\ result' = o.value
                              /\ pc' = "returned"
                              /\ UNCHANGED mi
                         ELSE /\ tried' = Append(tried,
                                    Ended(model,
                                          IF o.why = "response" THEN "empty_result"
                                          ELSE o.why,
                                          attempt, attempt - 1))
                              /\ mi' = mi + 1
                              /\ pc' = "model"
                              /\ UNCHANGED result
    /\ UNCHANGED <<exc, models_to_try, fi, status, status_vars, extract_vars,
                   validation_vars>>

\* lines 79-81: no model gave a result
AllModelsFailed ==
    /\ pc = "model"
    /\ mi > Len(models_to_try)
    /\ result' = QuotaResult
    /\ pc' = "returned"
    /\ UNCHANGED <<exc, client_vars, fi, status, status_vars, extract_vars,
                   validation_vars>>

NextGemini ==
    \/ TryModel
    \/ Post
    \/ AllModelsFailed

SpecGemini == InitGemini /\ [][NextGemini]_vars

\* the client keeps running and every request is answered
SpecGeminiLive == SpecGemini /\ WF_vars(NextGemini)

----------------------------------------------------------------------------
(* The status file on its own (scripts/pipeline_utils.py): the calls the    *)
(* pipeline's scripts make on it, one after the other                        *)

MaxCalls == 3   \* calls made on the status file after the first state

\* get_default_status() with the run id of the environment
FreshStatus(run_id) == [run_id |-> run_id] @@ get_default_status

\* the top-level keys of the status in the order json.dump writes them
StatusSections == <<"run_id", "steps", "outputs">>

\* the file when json.dump has written the first k sections of data
StatusPrefix(data, k) == [x \in {StatusSections[i] : i \in 1..k} |-> data[x]]

\* json.load succeeds on the file
IsWhole(file) == SeqToSet(StatusSections) \subseteq DOMAIN file

\* LoadStatusFresh forgets the file
LoadStatusFresh(file, current_run_id) == FreshStatus(current_run_id)

\* lines 34-55
load_status(file, current_run_id) ==
    IF file = NoFile THEN FreshStatus(current_run_id)
    ELSE IF ~IsWhole(file) THEN FreshStatus(current_run_id)   \* JSONDecodeError
    ELSE IF current_run_id # "local_run" /\ file.run_id # current_run_id
         THEN FreshStatus(current_run_id)
         ELSE file

\* lines 63-67 cut short after k sections: open(STATUS_FILE, "w") has emptied
\* the file and json.dump has written the first k sections into it
InterruptedSave(file, data, k) == StatusPrefix(data, k)

\* lines 63-67
save_status(file, data) == data

\* a status file a run with another id left behind
StaleStatus ==
    [run_id |-> "41",
     steps |-> [ingest_pubmed |-> [status |-> "success", count |-> 3],
                extract_claims |-> [status |-> "fail", count |-> 0,
                                    error |-> "old error"],
                sync_to_drive |-> [status |-> "pending", count |-> 0]],
     outputs |-> [ingest_dir |-> "01_INGEST/old/", claims_dir |-> "",
                  claims_summary |-> ""]]

\* the keyword arguments of the calls of update_status
StatusCalls ==
    { [step_name |-> s] @@ v @@ o :
        s \in {"ingest_pubmed", "extract_claims", "validate_hypotheses"},
        v \in { [status |-> "success", count |-> 5],
                [status |-> "fail", error |-> "boom"],
                [status |-> "success"] },
        o \in { EmptyDict,
                [outputs |-> [claims_dir |-> "04_RESULTS/claims/"]],
                [outputs |-> [ingest_dir |-> "01_INGEST/papers/",
                              report |-> "report.json"]] } }

InitStatus ==
    /\ pc = "status"
    /\ status \in {NoFile, StaleStatus}
    /\ github_run_id \in {"local_run", "42"}
    /\ last_call = [n |-> 0, fn |-> "none"]
    /\ initialized = FALSE
    /\ exc = ""
    /\ result = NoResult
    /\ fi = 1
    /\ models_to_try = <<>>
    /\ mi = 1
    /\ attempt = 1
    /\ total_sleep = 0
    /\ posts = <<>>
    /\ tried = <<>>
    /\ last_sleep = NoResult
    /\ ingest = <<>>
    /\ claims_out = <<>>
    /\ total_processed = 0
    /\ max_papers = 0
    /\ quota_faults = 0
    /\ ValidationIdle

\* lines 57-61
InitializeStatus ==
    /\ last_call.n < MaxCalls
    /\ status' = save_status(status, FreshStatus(github_run_id))
    /\ last_call' = [n |-> last_call.n + 1, fn |-> "initialize_status"]
    /\ initialized' = TRUE
    /\ UNCHANGED <<pc, exc, result, fi, github_run_id, client_vars, extract_vars,
                   validation_vars>>

\* lines 69-97: load_status, the changes, save_status
CallUpdateStatus ==
    /\ last_call.n < MaxCalls
    /\ \E kwargs \in StatusCalls :
          /\ status' = save_status(status,
                                   update_status(load_status(status, github_run_id),
                                                 kwargs))
          /\ last_call' = [n |-> last_call.n + 1, fn |-> "update_status",
                           kwargs |-> kwargs]
    /\ UNCHANGED <<pc, exc, result, fi, github_run_id, initialized, client_vars,
                   extract_vars, validation_vars>>

\* the process dies inside save_status, called by initialize_status or by
\* update_status
KilledInSave ==
    /\ last_call.n < MaxCalls
    /\ \E k \in 0..(Len(StatusSections) - 1) :
          \/ status' = InterruptedSave(status, FreshStatus(github_run_id), k)
          \/ \E kwargs \in StatusCalls :
                status' = InterruptedSave(status,
                              update_status(load_status(status, github_run_id),
                                            kwargs), k)
    /\ last_call' = [n |-> last_call.n + 1, fn |-> "killed"]
    /\ initialized' = FALSE
    /\ UNCHANGED <<pc, exc, result, fi, github_run_id, client_vars, extract_vars,
                   validation_vars>>

NextStatus ==
    \/ InitializeStatus
    \/ CallUpdateStatus
    \/ KilledInSave

SpecStatus == InitStatus /\ [][NextStatus]_vars

----------------------------------------------------------------------------
(* Extraction runs (scripts/extract_claims.py main and process_file),       *)
(* repeated over the same ingested files                                     *)

MaxFiles == 2          \* ingested files of the day
MaxPapersPerFile == 2  \* papers of one ingested file
MaxPerRun == 3         \* largest max_papers_per_run
MaxFaults == 1         \* quota exhaustions the service reports in all

\* an ingested file is the list of its papers; paper i of file f is <<f, i>>
IngestSets ==
    { [f \in 1..Len(sizes) |-> [i \in 1..sizes[f] |-> <<f, i>>]] :
        sizes \in UNION { [1..n -> 1..MaxPapersPerFile] : n \in 1..MaxFiles } }

\* process_file (lines 67-147) on the papers of a file, the claims file out
\* already there for it (NoFile if none), the limit, and the 1-based index q
\* of the paper for which the client returns the quota_exhausted result (0 if
\* it returns claims for every paper): processed_count, stop_run and the
\* claims file afterwards, [extracted |-> the papers with claims in it].
\* SMOKE_TEST is not set.
process_file(papers, out, limit, q) ==
    IF out # NoFile
    THEN [count |-> 0, stop |-> FALSE, out |-> out]       \* lines 83-85
    ELSE LET stop == q # 0 /\ q <= Len(papers) /\ q - 1 < limit
             done == IF stop THEN q - 1 ELSE Min(limit, Len(papers))
         IN  [count |-> done, stop |-> stop,
              out |-> IF done > 0 THEN [extracted |-> SubSeq(papers, 1, done)]
                      ELSE NoFile]

InitExtract ==
    /\ pc = "idle"
    /\ ingest \in IngestSets
    /\ claims_out = [f \in 1..Len(ingest) |-> NoFile]
    /\ max_papers \in 1..MaxPerRun
    /\ quota_faults \in 0..MaxFaults
    /\ total_processed = 0
    /\ fi = 1
    /\ status = NoFile
    /\ github_run_id = "local_run"
    /\ last_call = NoResult
    /\ initialized = FALSE
    /\ exc = ""
    /\ result = NoResult
    /\ models_to_try = <<>>
    /\ mi = 1
    /\ attempt = 1
    /\ total_sleep = 0
    /\ posts = <<>>
    /\ tried = <<>>
    /\ last_sleep = NoResult
    /\ ValidationIdle

\* main, lines 169-255: a run begins; the files are taken in the same order
StartRun ==
    /\ pc = "idle"
    /\ pc' = "files"
    /\ fi' = 1
    /\ total_processed' = 0
    /\ UNCHANGED <<exc, result, status, ingest, claims_out, max_papers, quota_faults,
                   client_vars, status_vars, validation_vars>>

\* main, lines 258-269: one pass of the loop over the files
ProcessFile ==
    /\ pc = "files"
    /\ fi <= Len(ingest)
    /\ total_processed < max_papers
    /\ \E q \in 0..Len(ingest[fi]) :
          /\ q # 0 => quota_faults > 0
          /\ LET r == process_file(ingest[fi], claims_out[fi],
                                   max_papers - total_processed, q)
             IN  /\ claims_out' = [claims_out EXCEPT ![fi] = r.out]
                 /\ total_processed' = total_processed + r.count
                 /\ quota_faults' = IF r.stop THEN quota_faults - 1 ELSE quota_faults
                 /\ pc' = IF r.stop THEN "summary" ELSE "files"
                 /\ fi' = IF r.stop THEN fi ELSE fi + 1
    /\ UNCHANGED <<exc, result, status, ingest, max_papers, client_vars,
                   status_vars, validation_vars>>

\* main, lines 259-261 and 271-296: the loop is left, the summary is written
\* and the step is recorded in the status file
FinishRun ==
    /\ \/ pc = "summary"
       \/ pc = "files" /\ (fi > Len(ingest) \/ total_processed >= max_papers)
    /\ status' = save_status(status,
                    update_status(load_status(status, github_run_id),
                                  [step_name |-> "extract_claims",
                                   status |-> "success",
                                   count |-> total_processed,
                                   outputs |-> [claims_dir |-> "04_RESULTS/claims/",
                                                claims_summary |->
                                                    "04_RESULTS/claims_extracted.json"]]))
    /\ pc' = "idle"
    /\ UNCHANGED <<exc, result, fi, total_processed, ingest, claims_out, max_papers,
                   quota_faults, client_vars, status_vars, validation_vars>>

NextExtract ==
    \/ StartRun
    \/ ProcessFile
    \/ FinishRun

SpecExtract == InitExtract /\ [][NextExtract]_vars

\* the runs are repeated for ever and every run goes on to its end
SpecExtractLive == SpecExtract /\ WF_vars(NextExtract)

----------------------------------------------------------------------------
(* Properties *)

Raised == pc = "raised"

ErrorsOf(f, action) ==
    {k \in 1..Len(run_errors) : run_errors[k].file = f /\ run_errors[k].action = action}

ClaimsFrom(f) == {k \in 1..Len(origin) : origin[k].f = f}

FileLoaded(f) == f \in 1..Len(claims_files) /\ f < fi

IsArray(f) == claims_files[f].kind = "array"

PapersOf(f) == claims_files[f].data

HasInputPaper(paper) == "input_paper" \in DOMAIN paper

ClaimsOfPaper(paper) ==
    LET extracted == Get(paper, "extracted_claims", EmptyDict)
    IN  IF extracted # JNull /\ "claims" \in DOMAIN extracted
        THEN extracted.claims ELSE <<>>

\* a paper the loader has no reason to reject
WellFormed(paper) ==
    /\ HasInputPaper(paper)
    /\ paper.input_paper # JNull
    /\ \A i \in 1..Len(ClaimsOfPaper(paper)) : IsDict(ClaimsOfPaper(paper)[i])

Loaded(f, p, i) == \E k \in 1..Len(origin) : origin[k] = [f |-> f, p |-> p, i |-> i]

\* C1: process_claims never lets an exception propagate to its caller.
C1_NoExceptionPropagates == ~Raised

\* C2: load_hypotheses never raises, whatever the state of the ledger path.
C2_LoadHypothesesNeverRaises == ~(pc = "raised" /\ exc = "load_hypotheses")

BlockYieldsHypotheses(led) ==
    /\ led.kind = "file"
    /\ led.block = "json"
    /\ \/ led.parsed.t = "list" /\ led.parsed.list # <<>>
       \/ /\ led.parsed.t = "dict"
          /\ "hypotheses" \in DOMAIN led.parsed.dict
          /\ led.parsed.dict.hypotheses.t = "list"
          /\ led.parsed.dict.hypotheses.list # <<>>

HasBullet(led) ==
    led.kind = "file" /\ \E k \in 1..Len(led.lines) : led.lines[k].k = "hyp"

ExpectedTier(led) ==
    IF BlockYieldsHypotheses(led) THEN "A"
    ELSE IF HasBullet(led) THEN "B"
    ELSE "C"

\* C3: load_hypotheses returns tier A exactly when the ledger exists and its
\* sentinel block parses to a non-empty list or to an object with a non-empty
\* hypotheses field, otherwise tier B exactly when the ledger exists and holds
\* a bullet-pattern hypothesis, otherwise tier C with the six hardcoded
\* hypotheses.
C3_TierResolution ==
    pc # "call_load_hypotheses" =>
        /\ source_tier = ExpectedTier(ledger)
        /\ source_tier = "C" => hypotheses = TIER_C_HYPOTHESES

\* C4: a claim file whose JSON cannot be decoded produces exactly one
\* run_errors entry, with action "skipped_file" and that file's name,
\* contributes no claims, and does not stop the other claim files from being
\* loaded and counted in the report.
C4_MalformedFileSkipped ==
    /\ \A f \in 1..Len(claims_files) :
          FileLoaded(f) /\ claims_files[f].kind = "malformed" =>
              /\ Cardinality({k \in 1..Len(run_errors) : run_errors[k].file = f}) = 1
              /\ Cardinality(ErrorsOf(f, "skipped_file")) = 1
              /\ ClaimsFrom(f) = {}
    /\ \A g \in 1..Len(claims_files) :
          /\ FileLoaded(g)
          /\ IsArray(g)
          /\ \A p \in 1..Len(PapersOf(g)) : WellFormed(PapersOf(g)[p])
          => \A p \in 1..Len(PapersOf(g)) :
                \A i \in 1..Len(ClaimsOfPaper(PapersOf(g)[p])) : Loaded(g, p, i)
    /\ report_file # NoFile =>
          report_file.summary.total_claims_processed = Len(origin)

C4_Witness ==
    /\ report_file # NoFile
    /\ \E f, g \in 1..Len(claims_files) :
          /\ f < g
          /\ claims_files[f].kind = "malformed"
          /\ ClaimsFrom(g) # {}

\* C5: in a claim file that parses to an array, each paper lacking input_paper
\* produces exactly one "skipped_paper" entry and every other paper of the
\* file, before or after it, still has its claims loaded.
C5_MissingInputPaperSkipped ==
    \A f \in 1..Len(claims_files) :
        FileLoaded(f) /\ IsArray(f) =>
            /\ Cardinality(ErrorsOf(f, "skipped_paper")) =
                   Cardinality({p \in 1..Len(PapersOf(f)) :
                                   ~HasInputPaper(PapersOf(f)[p])})
            /\ \A p \in 1..Len(PapersOf(f)) :
                  WellFormed(PapersOf(f)[p]) =>
                      \A i \in 1..Len(ClaimsOfPaper(PapersOf(f)[p])) : Loaded(f, p, i)

\* C6: a file with a "skipped_file" entry in run_errors is skipped entirely:
\* no claim of it is in the flattened claim list.
C6_SkippedFileContributesNothing ==
    \A k \in 1..Len(run_errors) :
        run_errors[k].action = "skipped_file" => ClaimsFrom(run_errors[k].file) = {}

PaperAt(o) == claims_files[o.f].data[o.p]

PmidOf(paper) == Get(paper.input_paper, "pmid", "unknown")

Before(a, b) ==
    \/ a.f < b.f
    \/ a.f = b.f /\ a.p < b.p
    \/ a.f = b.f /\ a.p = b.p /\ a.i < b.i

\* a paper that has its input_paper, in a file the loader did not skip
Surviving(f, p) ==
    /\ IsArray(f)
    /\ ErrorsOf(f, "skipped_file") = {}
    /\ HasInputPaper(PapersOf(f)[p])

\* C7: the flattened claim list holds the claims of all surviving papers in
\* file order, then paper order, then claim order; every claim carries its own
\* paper's pmid as _pmid and its 1-based position as _seq, and claim_id is
\* built from these two.
C7_FlattenOrder ==
    /\ Len(origin) = Len(all_claims_flat)
    /\ \A k \in 1..Len(origin) :
          LET o == origin[k]
              c == all_claims_flat[k]
              source == ClaimsOfPaper(PaperAt(o))[o.i]
          IN  /\ c._pmid = PmidOf(PaperAt(o))
              /\ c._seq = o.i
              /\ [x \in DOMAIN source |-> c[x]] = source
    /\ \A k, l \in 1..Len(origin) : k < l => Before(origin[k], origin[l])
    /\ \A f \in 1..Len(claims_files) :
          FileLoaded(f) /\ IsArray(f) =>
              \A p \in 1..Len(PapersOf(f)) :
                  Surviving(f, p) =>
                      \A i \in 1..Len(ClaimsOfPaper(PapersOf(f)[p])) : Loaded(f, p, i)
    /\ \A v \in 1..Len(validated_claims) :
          LET o == origin[validated_from[v]]
          IN  validated_claims[v].claim_id = ClaimId(PmidOf(PaperAt(o)), o.i)

C7_Witness ==
    /\ report_file # NoFile
    /\ Len(validated_claims) >= 2
    /\ \E k, l \in 1..Len(origin) :
          /\ origin[k].f # origin[l].f
          /\ origin[k].i = 2

\* C8: within one run every loaded claim has a _temp_id different from that of
\* every other loaded claim.
C8_TempIdsUnique ==
    \A k, l \in 1..Len(all_claims_flat) :
        k # l => all_claims_flat[k]._temp_id # all_claims_flat[l]._temp_id

\* the number of other claims whose token-set Jaccard index with claim k
\* exceeds 0.7, the index being 0 when either token set is empty
Replications(k) ==
    Cardinality({l \in 1..Len(all_claims_flat) :
        /\ l # k
        /\ ClaimTokens(all_claims_flat[k]) # {}
        /\ ClaimTokens(all_claims_flat[l]) # {}
        /\ 10 * Cardinality(ClaimTokens(all_claims_flat[k]) \cap ClaimTokens(all_claims_flat[l]))
             > 7 * Cardinality(ClaimTokens(all_claims_flat[k]) \cup ClaimTokens(all_claims_flat[l]))})

\* C9: the cluster count passed to calculate_replication_score for a claim is
\* the number of other claims of the run that replicate it.
C9_ClusterCountIsReplications ==
    \A k \in 1..Len(rep_args) : rep_args[k] = Replications(k)

Threshold == Get(Scoring(config), "match_threshold", 20)

BelowThresholdForAll(claim) ==
    \A h \in 1..Len(hypotheses) :
        RatLT(calculate_match_score(claim, hypotheses[h], config), RatInt(Threshold))

\* C10: a claim whose match_score is below match_threshold against every
\* hypothesis is not in validated_claims but is counted in
\* summary.total_claims_processed, and every match in the report has
\* match_score >= match_threshold.
C10_ThresholdFilter ==
    report_file # NoFile =>
        /\ report_file.validated_claims = validated_claims
        /\ report_file.summary.total_claims_processed = Len(all_claims_flat)
        /\ \A k \in 1..Len(all_claims_flat) :
              BelowThresholdForAll(all_claims_flat[k]) =>
                  k \notin SeqToSet(validated_from)
        /\ \A v \in 1..Len(report_file.validated_claims) :
              \A m \in 1..Len(report_file.validated_claims[v].matches) :
                  RatGE(report_file.validated_claims[v].matches[m].match_score,
                        RatInt(Threshold))

C10_Witness ==
    /\ report_file # NoFile
    /\ validated_from # <<>>
    /\ \E k \in 1..Len(all_claims_flat) :
          /\ BelowThresholdForAll(all_claims_flat[k])
          /\ ClaimTokens(all_claims_flat[k]) # {}

\* the function fn was called, and the call ended
Called(fn) == result # NoResult /\ result.fn = fn

Scored == Called("score_claim") /\ ~result.raised

MatchScoreAgainst(h) == calculate_match_score(all_claims_flat[1], hypotheses[h], config)

QualifyingHyps ==
    {h \in 1..Len(hypotheses) : RatGE(MatchScoreAgainst(h), RatInt(scoring_config.match_threshold))}

\* position in the hypothesis list of the hypothesis a match names
HypIndex(m) == CHOOSE h \in 1..Len(hypotheses) : Get(hypotheses[h], "id", "") = m.hypothesis_id

RatEq(a, b) == a.n * b.d = b.n * a.d

\* C11: the matches of a validated claim are at most top_k, ordered by
\* non-increasing match_score with equal scores in hypothesis iteration order,
\* they are the first top_k of the qualifying matches, and no dropped
\* qualifying match has a higher match_score than a retained one.
C11_TopKRanking ==
    Scored =>
        LET top == result.value.top_matches
            retained == {HypIndex(top[m]) : m \in 1..Len(top)}
        IN  /\ Len(top) <= scoring_config.top_k
            /\ Len(top) = Min(scoring_config.top_k, Cardinality(QualifyingHyps))
            /\ retained \subseteq QualifyingHyps
            /\ \A a, b \in 1..Len(top) :
                  a < b =>
                      /\ RatGE(top[a].match_score, top[b].match_score)
                      /\ RatEq(top[a].match_score, top[b].match_score)
                            => HypIndex(top[a]) < HypIndex(top[b])
            /\ \A m \in 1..Len(top) : RatEq(top[m].match_score, MatchScoreAgainst(HypIndex(top[m])))
            /\ \A h \in QualifyingHyps \ retained :
                  \A m \in 1..Len(top) :
                      /\ RatGE(top[m].match_score, MatchScoreAgainst(h))
                      /\ RatEq(top[m].match_score, MatchScoreAgainst(h))
                            => HypIndex(top[m]) < h

C11_Witness ==
    /\ Scored
    /\ LET top == result.value.top_matches
           retained == {HypIndex(top[m]) : m \in 1..Len(top)}
       IN  /\ Len(top) = 2
           /\ RatEq(top[1].match_score, top[2].match_score)
           /\ \E h \in QualifyingHyps \ retained : h < HypIndex(top[1])

InRange(r) == RatGE(r, RatInt(0)) /\ RatGE(RatInt(100), r)

\* C12: the composite_score of every emitted match lies in [0,100], whatever
\* the sub-scores and the configured composite and evidence-quality weights.
C12_CompositeInRange ==
    Scored =>
        \A m \in 1..Len(result.value.top_matches) :
            InRange(result.value.top_matches[m].composite_score)

C12_Witness ==
    /\ Scored
    /\ \E m \in 1..Len(result.value.top_matches) :
          LET match == result.value.top_matches[m]
          IN  /\ RatGT(match.match_score, RatInt(100))
              /\ RatGT(match.details.evidence_quality, RatInt(100))
              /\ RatEq(match.composite_score, RatInt(100))

\* C13: calculate_match_score returns a value in [0,100] for every claim,
\* every hypothesis and every configured match_weights mapping, including
\* mappings whose weights do not sum to 1 or that give only some of the three.
C13_MatchScoreInRange ==
    Called("calculate_match_score") => ~result.raised /\ InRange(result.value)

\* C14: calculate_evidence_strength, calculate_species_relevance,
\* calculate_sample_size_score and calculate_contradiction_score each return,
\* without raising, a value in [0,100] for every claim record, including
\* records whose optional fields are absent, empty or null.
C14_CalculatorsTotalAndBounded ==
    /\ \A fn \in {"calculate_evidence_strength", "calculate_species_relevance",
                  "calculate_contradiction_score"} :
          Called(fn) => ~result.raised /\ result.value \in 0..100
    /\ Called("calculate_sample_size_score") =>
          ~result.raised /\ InRange(result.value)

\* |A & B| / |A | B| of the claim's and the hypothesis's tokens, 0 when either is empty
TokenJaccard(claim, hyp) ==
    LET a == get_tokens(Get(claim, "claim_text", <<>>))
        b == get_tokens(Get(hyp, "text", <<>>))
    IN  IF a = {} \/ b = {} THEN Rat(0, 1)
        ELSE Rat(Cardinality(a \cap b), Cardinality(a \cup b))

\* how many of the hypothesis's keywords the claim text holds
KeywordsFound(claim, hyp) ==
    LET keywords == HypKeywords(hyp, config)
    IN  IF keywords = <<>> THEN 0 ELSE KeywordMatches(claim, keywords)

\* claim2 differs from claim in the keywords found only
SameButKeywords(claim, claim2, hyp) ==
    /\ Get(claim2, "domain_primary", "unknown") = Get(claim, "domain_primary", "unknown")
    /\ RatEq(TokenJaccard(claim2, hyp), TokenJaccard(claim, hyp))

\* C15: with the claim's domain, the token Jaccard, the number of hypothesis
\* keywords and the config held fixed, calculate_match_score does not
\* decrease when more of the hypothesis's keywords are found in the claim text.
C15_MonotoneInKeywords ==
    Called("calculate_match_score") =>
        LET claim == all_claims_flat[1]
            hyp == hypotheses[result.h]
        IN  \A claim2 \in ScoreClaims :
                /\ SameButKeywords(claim, claim2, hyp)
                /\ KeywordsFound(claim2, hyp) >= KeywordsFound(claim, hyp)
                => RatGE(calculate_match_score(claim2, hyp, config), result.value)

C15_Witness ==
    /\ Called("calculate_match_score")
    /\ LET claim == all_claims_flat[1]
           hyp == hypotheses[result.h]
       IN  \E claim2 \in ScoreClaims :
               /\ SameButKeywords(claim, claim2, hyp)
               /\ TokenJaccard(claim, hyp).n > 0
               /\ KeywordsFound(claim, hyp) = 1
               /\ KeywordsFound(claim2, hyp) = 2
               /\ RatGT(calculate_match_score(claim2, hyp, config), result.value)

\* contradiction_flags.contradicts_existing of a claim is true
ContradictsExisting(claim) ==
    LET flags == Get(claim, "contradiction_flags", EmptyDict)
    IN  flags # JNull /\ Get(flags, "contradicts_existing", FALSE)

\* C19: calculate_contradiction_score depends only on the claim's
\* contradicts_existing flag: it returns the same value for every hypothesis,
\* 75 when the flag is true and 100 otherwise.
C19_ContradictionScoreIgnoresHypothesis ==
    Called("calculate_contradiction_score") =>
        /\ ~result.raised
        /\ result.value = IF ContradictsExisting(all_claims_flat[1]) THEN 75 ELSE 100
        /\ \A h \in 1..Len(hypotheses) :
              calculate_contradiction_score(all_claims_flat[1], hypotheses[h]) = result.value

\* the keys of config_domains that lie in the normalized tag, in configured order
KeysIn(tag, keys) == SelectSeq(keys, LAMBDA d_key : IsSubstring(d_key, TagNorm(tag)))

\* the domain the tags of a Tier B hypothesis stand for
ExpectedDomain(tags, keys) ==
    LET matching == {i \in 1..Len(tags) : KeysIn(tags[i], keys) # <<>>}
    IN  IF matching # {}
        THEN Head(KeysIn(tags[CHOOSE i \in matching : \A j \in matching : i <= j], keys))
        ELSE IF tags # <<>> THEN tags[1]
        ELSE "unknown"

\* C20: the domain of a Tier B hypothesis is the first configured domain key
\* that is a substring of a normalized domain tag, the tags tried in listed
\* order; the first tag verbatim when no tag matches a key; "unknown" when
\* there are no tags.
C20_TierBDomain ==
    pc = "returned" /\ source_tier = "B" =>
        \A k \in 1..Len(hypotheses) :
            hypotheses[k].domain =
                ExpectedDomain(hypotheses[k].domain_tags, DomainKeys(config))

\* C17: when no claim file is found for the run date, process_claims
\* completes as a successful no-op: it records status "success" with count 0
\* for the validate_hypotheses step and writes no report.
C17_NoInputIsSuccessfulNoOp ==
    claims_files = <<>> /\ pc \notin {"start", "no_claims"} =>
        /\ ~Raised
        /\ "validate_hypotheses" \in DOMAIN status.steps
        /\ Get(status.steps, "validate_hypotheses", EmptyDict) =
               [status |-> "success", count |-> 0]
        /\ report_file = NoFile

\* a file holding a whole report
IsComplete(file) == file # NoFile /\ DOMAIN file = SeqToSet(ReportSections)

\* C16: the report is written completely to the temporary path and only then
\* renamed onto validated_claims.json: in every state, a crash between any two
\* steps of the write included, validated_claims.json is absent, the previous
\* complete report, or the new complete report, never a partial one.
C16_ReportNeverPartial ==
    /\ \/ report_file = NoFile
       \/ report_file = previous_report /\ IsComplete(previous_report)
       \/ report_file = output_data /\ IsComplete(output_data)
    /\ pc = "rename" => tmp_file = output_data /\ IsComplete(tmp_file)

C16_Witness ==
    /\ pc = "crashed"
    /\ run = 2
    /\ tmp_file # NoFile
    /\ ~IsComplete(tmp_file)
    /\ DOMAIN tmp_file # {}
    /\ IsComplete(report_file)
    /\ report_file = previous_report
    /\ report_file.validated_claims # <<>>

\* a report without its run date
Dateless(report) == [report EXCEPT !.meta.run_date = ""]

\* C18: a second run of process_claims over the same claim files, ledger and
\* config writes a report equal to the first run's in every field other than
\* meta.run_date; nothing the first run leaves behind, in the config object or
\* on disk, changes it.
C18_RerunIdentical ==
    /\ run = 2
    /\ IsComplete(previous_report)
    /\ pc = "update_status"
    => /\ IsComplete(report_file)
       /\ Dateless(report_file) = Dateless(previous_report)

C18_Witness ==
    /\ run = 2
    /\ IsComplete(previous_report)
    /\ pc = "update_status"
    /\ report_file.validated_claims # <<>>
    /\ config # loaded_config

\* the loaded claim is the claim of the scenario: its text, domain, design,
\* species, p_value and effect_size, and no limitations
IsScenario(claim) ==
    /\ Get(claim, "claim_text", <<>>) = cScenario.claim_text
    /\ Get(claim, "domain_primary", "unknown") = "senescence"
    /\ Get(claim, "study_design", "unknown") = "RCT"
    /\ Get(claim, "species", <<>>) = <<"human">>
    /\ Present(claim, "p_value") /\ Present(claim, "effect_size")
    /\ Get(claim, "limitations_noted", <<>>) = <<>>

\* the senescence hypothesis of the scenario, scored with the default weights
IsScenarioMatch(h) ==
    /\ Get(hypotheses[h], "domain", "unknown") = "senescence"
    /\ Get(hypotheses[h], "text", <<>>) = HA1.text
    /\ Get(hypotheses[h], "keywords", <<>>) = << <<"senolytic">>, <<"il-6">> >>
    /\ Get(Scoring(config), "match_weights", EmptyDict) = DefaultMatchWeights

\* C21: for the claim "Senolytic X reduces IL-6 levels in humans." (domain
\* senescence, design RCT, species [human], p_value and effect_size present,
\* no limitations) against the senescence hypothesis with keywords
\* [senolytic, il-6] and default weights, evidence_strength is exactly 98,
\* species_relevance is exactly 100 and match_score is greater than 60.
C21_ScenarioScores ==
    IsScenario(all_claims_flat[1]) =>
        /\ Called("calculate_evidence_strength") =>
              ~result.raised /\ result.value = 98
        /\ Called("calculate_species_relevance") =>
              ~result.raised /\ result.value = 100
        /\ Called("calculate_match_score") /\ IsScenarioMatch(result.h) =>
              ~result.raised /\ RatGT(result.value, RatInt(60))

C21_Witness ==
    /\ IsScenario(all_claims_flat[1])
    /\ Called("calculate_match_score")
    /\ IsScenarioMatch(result.h)
    /\ RatEq(result.value, Rat(580, 9))
    /\ calculate_evidence_strength(all_claims_flat[1]) = 98
    /\ calculate_species_relevance(all_claims_flat[1]) = 100

\* the two token sets of a call of calculate_match_score
CallTokens ==
    [a |-> ClaimTokens(all_claims_flat[1]),
     b |-> get_tokens(Get(hypotheses[result.h], "text", <<>>))]

\* C22: the token-set Jaccard index used for matching and for clustering is
\* always in [0,1], equals 1 for two equal non-empty token sets, and is taken
\* as 0, without a division, whenever either token set is empty.
C22_JaccardIndex ==
    Called("calculate_match_score") =>
        LET a == CallTokens.a
            b == CallTokens.b
            j == JaccardIndex(a, b)
        IN  /\ j.d > 0
            /\ RatGE(j, RatInt(0)) /\ RatGE(RatInt(1), j)
            /\ (a = b /\ a # {}) => RatEq(j, RatInt(1))
            /\ (a = {} \/ b = {}) => j = Rat(0, 1)
            /\ \A weight \in {0, 100} :
                  RatEq(MatchScoreOf([domain_overlap |-> 0, token_jaccard |-> weight,
                                      entity_score |-> 0], FALSE, j.n, j.d, 0, 1),
                        RatScale(weight, j))
            /\ \A claim2 \in ScoreClaims :
                  LET a2 == ClaimTokens(claim2)
                      j2 == JaccardIndex(a, a2)
                      pair == <<all_claims_flat[1], Provenance(claim2, "202", 0)>>
                  IN  /\ j2.d > 0
                      /\ RatGE(j2, RatInt(0)) /\ RatGE(RatInt(1), j2)
                      /\ (a = a2 /\ a # {}) => RatEq(j2, RatInt(1))
                      /\ (a = {} \/ a2 = {}) => j2 = Rat(0, 1)
                      /\ ClusterCountOf(pair, 1) = 1 <=> RatGT(j2, Rat(7, 10))

C22_Witness ==
    /\ Called("calculate_match_score")
    /\ CallTokens.a = CallTokens.b
    /\ CallTokens.a # {}
    /\ \E claim2 \in ScoreClaims : ClaimTokens(claim2) = {}
    /\ \E claim2 \in ScoreClaims :
          /\ ClaimTokens(claim2) # CallTokens.a
          /\ RatGT(JaccardIndex(CallTokens.a, ClaimTokens(claim2)), Rat(7, 10))

\* how many of the requests sent went to the model
Count(seq, x) == Cardinality({k \in 1..Len(seq) : seq[k] = x})

\* C23: when a 429 response carries a Retry-After header, the client sleeps
\* exactly that many seconds before the retry (Retry-After: 10 leads to
\* sleep(10)).
C23_SleepsRetryAfter ==
    (last_sleep # NoResult /\ last_sleep.retry_after # "") =>
        last_sleep.delay = ParseFloat(last_sleep.retry_after)

\* the call for the k-th model tried was one request answered by 200
AnsweredOk(k) ==
    /\ tried[k].outcome \in {"result", "empty_result", "parse_exception"}
    /\ tried[k].requests = 1

\* the call for the k-th model tried was one request answered by "limit: 0"
AnsweredHardLimit(k) ==
    tried[k].outcome = "quota_hard_limit" /\ tried[k].requests = 1

\* every request sent so far was the first one to its model and was answered
\* by "limit: 0", but for the last one, which may have been answered by 200
HardLimitsThenOk ==
    /\ tried # <<>>
    /\ Len(posts) = Len(tried)
    /\ \A k \in 1..(Len(tried) - 1) : AnsweredHardLimit(k)
    /\ AnsweredHardLimit(Len(tried)) \/ AnsweredOk(Len(tried))

\* C24: a 429 response whose message reports "limit: 0" is never retried on
\* the same model: exactly one request is sent to each model in the
\* primary-then-fallback order, no sleep occurs, a later model's 200 response
\* is returned as the result, and when every model is exhausted
\* extract_claims returns {"error": "quota_exhausted", "reason":
\* "all_models_failed"}.
C24_HardLimitFailsOver ==
    /\ \A k \in 1..Len(tried) :
          tried[k].outcome = "quota_hard_limit" =>
              Count(posts, tried[k].model) = tried[k].requests
    /\ HardLimitsThenOk =>
          /\ posts = [k \in 1..Len(tried) |-> StripModel(models_to_try[k])]
          /\ last_sleep = NoResult
          /\ AnsweredOk(Len(tried)) =>
                pc = "returned" /\ result # QuotaResult
          /\ (pc = "returned" /\ AnsweredHardLimit(Len(tried))) =>
                Len(tried) = Len(models_to_try) /\ result = QuotaResult

C28_RetryTerminates ==
    /\ [](/\ attempt <= max_attempts
          /\ total_sleep <= max_sleep_total
          /\ \A model \in ALLOWED_GEMINI_MODELS : Count(posts, model) <= max_attempts)
    /\ (pc = "request") ~> (pc # "request")

C28_Witness ==
    /\ pc = "model"
    /\ tried # <<>>
    /\ tried[Len(tried)].outcome = "max_sleep"
    /\ tried[Len(tried)].requests = 4
    /\ total_sleep >= 7 * base_backoff

\* C29: extract_claims returns the quota_exhausted error result, which makes
\* process_file stop the whole extraction run, only if every model tried
\* reported a quota hard limit (limit: 0); failures of another kind (other
\* HTTP status, network error, attempts or sleep budget used up) are not
\* reported as quota exhaustion.
C29_QuotaResultOnlyForHardLimits ==
    (pc = "returned" /\ result = QuotaResult) =>
        \A k \in 1..Len(tried) : tried[k].outcome = "quota_hard_limit"

\* C26: every save of the pipeline status (update_status through save_status)
\* writes the data to STATUS_FILE + ".tmp" and then renames that file onto
\* STATUS_FILE, so the status file is never observed partially written.
C26_StatusNeverPartial == status = NoFile \/ IsWhole(status)

\* the step is a call of update_status on an initialized status file
UpdateStep ==
    /\ initialized
    /\ last_call'.n = last_call.n + 1
    /\ last_call'.fn = "update_status"

\* C27: after any sequence of update_status calls following
\* initialize_status, a call update_status(step, ...) changes only the named
\* step's status, count and error and the output keys it is given: the fields
\* of every other step and every other output recorded by earlier calls are
\* unchanged.
C27_UpdateKeepsOtherFields ==
    [][UpdateStep =>
        LET kwargs == last_call'.kwargs
            given == DOMAIN Get(kwargs, "outputs", EmptyDict)
        IN  /\ status'.run_id = status.run_id
            /\ DOMAIN status'.steps = DOMAIN status.steps \cup {kwargs.step_name}
            /\ \A s \in DOMAIN status.steps \ {kwargs.step_name} :
                  status'.steps[s] = status.steps[s]
            /\ DOMAIN status'.outputs = DOMAIN status.outputs \cup given
            /\ \A o \in DOMAIN status.outputs \ given :
                  status'.outputs[o] = status.outputs[o]
            /\ \A o \in given : status'.outputs[o] = kwargs.outputs[o]
            /\ LET old == Get(status.steps, kwargs.step_name, EmptyDict)
                   new == status'.steps[kwargs.step_name]
               IN  /\ new.status = kwargs.status
                   /\ \A k \in {"count", "error"} :
                         IF k \in DOMAIN kwargs
                         THEN new[k] = kwargs[k]
                         ELSE /\ k \in DOMAIN new <=> k \in DOMAIN old
                              /\ k \in DOMAIN old => new[k] = old[k]
    ]_vars

\* the second update_status after initialize_status, with a step and an output that an earlier
\* call recorded and this call does not name
C27_Witness ==
    /\ initialized
    /\ last_call.fn = "update_status"
    /\ last_call.n = 3
    /\ last_call.kwargs.step_name = "extract_claims"
    /\ "outputs" \in DOMAIN last_call.kwargs
    /\ status.steps.ingest_pubmed.status = "success"
    /\ status.steps.ingest_pubmed.count = 5
    /\ status.outputs.ingest_dir = "01_INGEST/papers/"
    /\ status.outputs.claims_dir = "04_RESULTS/claims/"

\* the claims file of every ingested file holds every paper of the file
AllExtracted ==
    \A f \in 1..Len(ingest) :
        claims_out[f] # NoFile /\ claims_out[f].extracted = ingest[f]

\* C30: across repeated extraction runs over the same ingested files, every
\* paper of a file is eventually extracted: a run that stops part-way through
\* a file (quota exhaustion or the max-papers limit) after saving that file's
\* partial results does not keep a later run from processing the file's
\* remaining papers.
C30_EveryPaperEventuallyExtracted == <>AllExtracted

====
